---- MODULE Spec2Model ----
(***************************************************************************)
(* Turn-processing engine of Ragent: the LangGraph workflow               *)
(* (graph/workflow.py), its nodes (graph/memory_nodes.py,                  *)
(* graph/supervisor.py, graph/chat_node.py, graph/rag_node.py) and the     *)
(* progress notifier (utils/track_progress.py).                            *)
(*                                                                         *)
(* Several turns are in flight in one event loop.  Every turn walks the    *)
(* pipeline memory_fetch -> supervisor -> rag_agent | chatbot ->           *)
(* memory_update; every step of a turn runs from one await to the next.    *)
(* Texts are sequences of strings; time is counted in units of 25 ms.      *)
(***************************************************************************)
EXTENDS Naturals, Integers, Sequences, FiniteSets, TLC

\* ------------------------------------------------------------------ bounds
MaxTime == 3
MaxChunks == 2
MaxToolCalls == 1
MaxRoundCalls == 2
MaxPersists == 3

\* ------------------------------------------------------- program constants
ThrottleInterval == 2
WordBatch == 8

Turns == {"t1", "t2"}
Sessions == {"s1", "s2"}
ChatModes == {"rag", "general", "auto"}
ObserverKinds == {"none", "returns", "raises", "hangs"}
ChunkKinds == {"w", "w.", " ", "w8"}
ToolNames == {"calculate", "no_such_tool"}
RoutingAnswers == {"rag", "chatbot", "raise"}
MemoryKinds == {"real", "real_context", "mock", "error"}
MessageKinds == {"plain", "keyword"}
Messages == {"m1", "m2", "m3"}

FallbackAnswer == <<"I encountered an error processing your request. Please try again.">>
ChatApology == <<"I apologize, but I encountered an error. Please try again.">>
RagApology == <<"I apologize, but the document search system encountered an error. Please try again later.">>

VARIABLES
    pc,          \* position of every turn in process_with_progress_tracking
    req,         \* the request of every turn: session_id, chat_mode, progress_callback
    st,          \* the LangGraph state dict of every turn, with the locals of the running node
    result,      \* what process_with_progress_tracking handed to its caller
    callbacks,   \* ProgressCallback.callbacks: session_id -> list of observers
    lastUpdates, \* ProgressCallback._last_updates: throttle key -> loop time
    now,         \* asyncio loop time
    emitted,     \* history: the notify_progress calls of every turn
    lastCall,    \* history: the most recent notify_progress call and the observers it called
    stagelog,    \* history: node entries and exits of every turn
    failed,      \* history: the stages of every turn in which an operation failed
    lastStream,  \* history: loop time of the last streaming delivery of every session
    world,       \* the environment of the run: the turns that arrive, their sessions,
                 \* and whether backends fail and streams vary
    external,    \* history: the calls of every turn to external capabilities, with what
                 \* they answered
    langgraph_systems, \* DatabaseAwareMultiAgentManager.langgraph_systems: key -> system
    created,     \* history: the keys for which a system was created, in order of creation
    msgs,        \* position of every message in DatabaseAwareMultiAgentManager.process_message
    facts_col,   \* the 'facts' of the user's document in the collection user_facts
    messages_col,  \* the collection messages_history, in insertion order
    qdrant_store,  \* the documents of the long-term collections
    persists,    \* position of every running MemoryAgent.update, with its locals
    clock,       \* the number of updates begun; datetime.now() of an update
    fetched,     \* what the last fetch_short_term returned
    pending_actions,  \* GoogleCalendarTool.pending_actions of the shared calendar_tool
    calendar_events,  \* the events inserted into the calendar, in order of insertion
    serial,      \* the number of proposals created; tells one proposal dict from another
    rejected,    \* history: the proposals reject_action removed
    lastOp,      \* history: the last call of the calendar tool and what it returned
    responses_db,  \* Redis: the keys query:response:<hash> with their pickled values
    freq_db,     \* Redis: the keys query:freq:<hash> with their values
    cache_hits,  \* QueryCache._hits
    cache_misses,  \* QueryCache._misses
    cache_ops,   \* the number of set_response and get_response calls made
    stored_queries,  \* history: the queries set_response stored, with their contexts
    kept_entries,  \* history: per stored query, what was stored and when, while its
                   \* entry is kept
    lastCache,   \* history: the last call of the query cache and what it returned
    active_websockets,  \* DatabaseAwareMultiAgentManager.active_websockets
    sockets,     \* per connection: where its handler is, its session and its key
    last_registered,  \* history: per key, the connection that registered last
    lastEvent    \* history: the last event of websocket_callback and where it went

vars == <<pc, req, st, result, callbacks, lastUpdates, now, emitted, lastCall, stagelog,
          failed, lastStream, world, external, langgraph_systems, created, msgs,
          facts_col, messages_col, qdrant_store, persists, clock, fetched,
          pending_actions, calendar_events, serial, rejected, lastOp,
          responses_db, freq_db, cache_hits, cache_misses, cache_ops, stored_queries,
          kept_entries, lastCache, active_websockets, sockets, last_registered, lastEvent>>

managerVars == <<langgraph_systems, created, msgs>>
memoryVars == <<facts_col, messages_col, qdrant_store, persists, clock, fetched>>
calendarVars == <<pending_actions, calendar_events, serial, rejected, lastOp>>
cacheVars == <<responses_db, freq_db, cache_hits, cache_misses, cache_ops, stored_queries,
               kept_entries, lastCache>>
socketVars == <<active_websockets, sockets, last_registered, lastEvent>>
serviceVars == <<calendarVars, cacheVars, socketVars>>
turnVars == <<pc, req, st, result, callbacks, lastUpdates, now, emitted, lastCall, stagelog,
              failed, lastStream, external>>

None == "none"
EmptyMap == [k \in {} |-> <<>>]

\* {**a, **b}
Merge(a, b) == [k \in DOMAIN a \cup DOMAIN b |-> IF k \in DOMAIN b THEN b[k] ELSE a[k]]

NoRequest == [session_id |-> None, chat_mode |-> None, observer |-> None, message |-> None]
NoResult == [outcome |-> None]
NoMessage == [pc |-> "idle", user_id |-> <<>>, session_id |-> <<>>, system |-> 0]
NoCall == [turn |-> None, session_id |-> None, step |-> None, status |-> None,
           registered |-> <<>>, delivered |-> <<>>]

\* initial_state of process_with_progress_tracking, with the node locals
InitialState ==
    [memory_context |-> None,
     has_context |-> FALSE,
     selected_agent |-> <<>>,
     agent_response |-> <<>>,
     metadata |-> EmptyMap,
     tools_used |-> <<>>,
     tool_results |-> <<>>,
     chunk_buffer |-> <<>>,
     word_count |-> 0,
     chunks |-> 0,
     rag_response |-> <<>>,
     hits |-> <<>>,
     branch |-> None]

\* ------------------------------------------------------- progress notifier
Registered(sid) == sid \in DOMAIN callbacks

\* a throttle key that leaves the session out
LastUpdateKeyShared(sid) == <<"", "_last_stream">>

\* f"{session_id}_last_stream"
LastUpdateKey(sid) == <<sid, "_last_stream">>

IsStreaming(step, status) == step = "streaming" /\ status = "partial"

Throttled(sid, step, status) ==
    /\ IsStreaming(step, status)
    /\ LastUpdateKey(sid) \in DOMAIN lastUpdates
    /\ now - lastUpdates[LastUpdateKey(sid)] < ThrottleInterval

\* a delivery loop that an observer that raises ends
RECURSIVE CalledPrefixUntilRaise(_)
CalledPrefixUntilRaise(obs) ==
    IF obs = <<>> THEN <<>>
    ELSE IF req[Head(obs)].observer \in {"hangs", "raises"} THEN <<Head(obs)>>
    ELSE <<Head(obs)>> \o CalledPrefixUntilRaise(Tail(obs))

\* the observers the delivery loop calls: all of them, up to one that never returns
RECURSIVE CalledPrefix(_)
CalledPrefix(obs) ==
    IF obs = <<>> THEN <<>>
    ELSE IF req[Head(obs)].observer = "hangs" THEN <<Head(obs)>>
    ELSE <<Head(obs)>> \o CalledPrefix(Tail(obs))

\* the throttle consulted without looking the session up first
DeliversUnchecked(sid, step, status) == ~Throttled(sid, step, status)

\* the guards of notify_progress before its delivery loop
Delivers(sid, step, status) == Registered(sid) /\ ~Throttled(sid, step, status)

\* a notifier that calls no observer
DeliveredToNone(sid, step, status) == <<>>

\* the observers notify_progress calls for an event
Delivered(sid, step, status) ==
    IF Registered(sid) /\ Delivers(sid, step, status)
    THEN CalledPrefix(callbacks[sid])
    ELSE <<>>

\* notify_progress does not return: an observer it awaits never returns
Blocks(sid, step, status) ==
    \E i \in 1..Len(Delivered(sid, step, status)) :
        req[Delivered(sid, step, status)[i]].observer = "hangs"

RegisteredAt(sid) == IF Registered(sid) THEN callbacks[sid] ELSE <<>>

\* notify_progress(session_id, step, status, details) called by turn t
NotifyProgress(t, step, status, details) ==
    LET sid == req[t].session_id
    IN  /\ lastUpdates' =
              IF Delivers(sid, step, status) /\ IsStreaming(step, status)
              THEN [k \in DOMAIN lastUpdates \cup {LastUpdateKey(sid)} |->
                        IF k = LastUpdateKey(sid) THEN now ELSE lastUpdates[k]]
              ELSE lastUpdates
        /\ lastStream' =
              IF IsStreaming(step, status) /\ Delivered(sid, step, status) # <<>>
              THEN [lastStream EXCEPT ![sid] = now]
              ELSE lastStream
        /\ emitted' = [emitted EXCEPT ![t] = Append(@,
              [step |-> step, status |-> status, details |-> details,
               delivered |-> Delivered(sid, step, status) # <<>>])]
        /\ lastCall' = [turn |-> t, session_id |-> sid, step |-> step, status |-> status,
                        registered |-> RegisteredAt(sid),
                        delivered |-> Delivered(sid, step, status)]

\* register_callback
RegisterCallback(cbs, sid, cb) ==
    [k \in DOMAIN cbs \cup {sid} |->
        IF k \in DOMAIN cbs /\ k = sid THEN Append(cbs[k], cb)
        ELSE IF k = sid THEN <<cb>>
        ELSE cbs[k]]

\* an unregister_session that forgets to delete the entry
UnregisterNothing(cbs, sid) == cbs

\* unregister_session
UnregisterSession(cbs, sid) == [k \in DOMAIN cbs \ {sid} |-> cbs[k]]

\* ------------------------------------------------------------------- turns
\* what the environment of the run offers
Faults == world.faults
ChunkChoices == world.chunks
MemoryOutcomes == world.memory

\* route_to_agent
RouteToAgent(state) == state.selected_agent[1]

\* the edges with the supervisor wired to the chatbot only
NextNodeIgnoresRouter(node, state) ==
    CASE node = "START" -> "memory_fetch"
      [] node = "memory_fetch" -> "supervisor"
      [] node = "supervisor" -> "chatbot"
      [] node = "rag_agent" -> "memory_update"
      [] node = "chatbot" -> "memory_update"
      [] node = "memory_update" -> "END"

\* the edges of _build_enhanced_workflow
NextNode(node, state) ==
    CASE node = "START" -> "memory_fetch"
      [] node = "memory_fetch" -> "supervisor"
      [] node = "supervisor" -> RouteToAgent(state)
      [] node = "rag_agent" -> "memory_update"
      [] node = "chatbot" -> "memory_update"
      [] node = "memory_update" -> "END"

Nodes == {"memory_fetch", "supervisor", "rag_agent", "chatbot", "memory_update"}

NoNotify == UNCHANGED <<lastUpdates, lastStream, emitted, lastCall>>

\* the locals of a node are dropped when it returns
DropLocals(state) ==
    [state EXCEPT !.chunk_buffer = <<>>, !.word_count = 0, !.chunks = 0,
                  !.rag_response = <<>>, !.hits = <<>>, !.branch = None]

TurnStep(t, blk, nextpc, newst) ==
    /\ pc' = [pc EXCEPT ![t] = IF blk THEN "blocked" ELSE nextpc]
    /\ st' = IF blk THEN st ELSE [st EXCEPT ![t] = newst]

Enter(t, node) == stagelog' = [stagelog EXCEPT ![t] = Append(@, <<node, "enter">>)]
Exit(t, node, blk) ==
    stagelog' = IF blk THEN stagelog ELSE [stagelog EXCEPT ![t] = Append(@, <<node, "exit">>)]

\* process_with_progress_tracking up to the call of ainvoke
Start(t) ==
    /\ pc[t] = "idle"
    /\ t \in world.turns
    /\ \E sid \in world.sessions[t], mode \in world.modes, ob \in world.observers,
          msg \in world.messages :
        /\ req' = [req EXCEPT ![t] = [session_id |-> sid, chat_mode |-> mode, observer |-> ob,
                                      message |-> msg]]
        /\ callbacks' = IF ob # "none" THEN RegisterCallback(callbacks, sid, t) ELSE callbacks
    /\ pc' = [pc EXCEPT ![t] = NextNode("START", InitialState)]
    /\ st' = [st EXCEPT ![t] = InitialState]
    /\ UNCHANGED <<world, managerVars, memoryVars, serviceVars, external, result, lastUpdates, now, emitted, lastCall, stagelog, failed, lastStream>>

\* enhanced_memory_fetch_node up to its first await
MemoryFetchStart(t) ==
    /\ pc[t] = "memory_fetch"
    /\ NotifyProgress(t, "memory", "active", <<"Loading conversation context and user profile...">>)
    /\ TurnStep(t, Blocks(req[t].session_id, "memory", "active"), "memory_fetch_body", st[t])
    /\ Enter(t, "memory_fetch")
    /\ UNCHANGED <<world, managerVars, memoryVars, serviceVars, external, req, result, callbacks, now, failed>>

\* dict.get(key, default)
ContextGet(ctx, key, default) == IF key \in DOMAIN ctx THEN ctx[key] ELSE default

\* a fetch whose failure keeps what a previous fetch had loaded
MemoryContextKeepsStale(outcome) ==
    CASE outcome \in {"real_context", "mock"} ->
            [short_term |-> <<"message">>, long_term |-> <<"doc">>,
             user_facts |-> [name |-> <<"value">>],
             context_summary |-> <<"context">>, memory_agent |-> "real"]
      [] outcome = "real" ->
            [short_term |-> <<>>, long_term |-> <<>>, user_facts |-> EmptyMap,
             context_summary |-> <<"No context available">>, memory_agent |-> "real"]
      [] outcome = "error" -> [error |-> <<"memory_error">>]
      [] OTHER -> EmptyMap

\* the memory_context that enhanced_memory_fetch_node returns: what the memory system
\* holds ("real_context": something, "real": nothing), the mock agent with empty
\* lists when the memory system raises, the error alone when the node's outer
\* except clause is reached; {} before the node has run
MemoryContext(outcome) ==
    CASE outcome = "real_context" ->
            [short_term |-> <<"message">>, long_term |-> <<"doc">>,
             user_facts |-> [name |-> <<"value">>],
             context_summary |-> <<"context">>, memory_agent |-> "real"]
      [] outcome = "real" ->
            [short_term |-> <<>>, long_term |-> <<>>, user_facts |-> EmptyMap,
             context_summary |-> <<"No context available">>, memory_agent |-> "real"]
      [] outcome = "mock" ->
            [short_term |-> <<>>, long_term |-> <<>>, user_facts |-> EmptyMap,
             context_summary |-> <<"No context available">>, memory_agent |-> "mock"]
      [] outcome = "error" -> [error |-> <<"memory_error">>]
      [] OTHER -> EmptyMap

\* context_parts of the agent nodes is not empty: there are user facts or recent
\* messages in the memory context
HasContext(ctx) ==
    \/ ContextGet(ctx, "user_facts", EmptyMap) # EmptyMap
    \/ ContextGet(ctx, "short_term", <<>>) # <<>>

\* enhanced_memory_fetch_node from its first await to its return
MemoryFetchBody(t) ==
    /\ pc[t] = "memory_fetch_body"
    /\ \E outcome \in MemoryOutcomes :
        LET status == IF outcome = "error" THEN "error" ELSE "completed"
            details == CASE outcome = "error" -> <<"Memory fetch failed", "memory_error">>
                         [] outcome = "real_context" -> <<"Loaded">>
                         [] OTHER -> <<"Memory context loaded">>
            blk == Blocks(req[t].session_id, "memory", status)
        IN  /\ NotifyProgress(t, "memory", status, details)
            /\ TurnStep(t, blk, NextNode("memory_fetch", st[t]),
                   [st[t] EXCEPT !.memory_context = outcome,
                                 !.has_context = HasContext(MemoryContext(outcome))])
            /\ Exit(t, "memory_fetch", blk)
            /\ failed' = IF outcome \in {"mock", "error"}
                         THEN [failed EXCEPT ![t] = @ \cup {"memory_fetch"}]
                         ELSE failed
    /\ UNCHANGED <<world, managerVars, memoryVars, serviceVars, external, req, result, callbacks, now>>

\* enhanced_supervisor_node up to its first await
SupervisorStart(t) ==
    /\ pc[t] = "supervisor"
    /\ NotifyProgress(t, "supervisor", "active",
           <<"Analyzing request intent and routing to appropriate agent...">>)
    /\ TurnStep(t, Blocks(req[t].session_id, "supervisor", "active"), "supervisor_body", st[t])
    /\ Enter(t, "supervisor")
    /\ UNCHANGED <<world, managerVars, memoryVars, serviceVars, external, req, result, callbacks, now, failed>>

\* a decision that asks the routing call whatever the mode
SupervisorDecisionByAnswer(chat_mode, answer) ==
    IF answer = "rag" THEN "rag_agent" ELSE "chatbot"

\* a decision that falls back to the RAG agent when the routing call raises
SupervisorDecisionDefaultRag(chat_mode, answer) ==
    IF chat_mode = "rag" THEN "rag_agent"
    ELSE IF chat_mode = "general" THEN "chatbot"
    ELSE IF answer = "raise" THEN "rag_agent"
    ELSE IF answer = "rag" THEN "rag_agent"
    ELSE "chatbot"

\* the decision of enhanced_supervisor_node: explicit mode, else the routing call
\* (answer = what the routing call returned, or "raise")
SupervisorDecision(chat_mode, answer) ==
    IF chat_mode = "rag" THEN "rag_agent"
    ELSE IF chat_mode = "general" THEN "chatbot"
    ELSE IF answer = "raise" THEN "chatbot"
    ELSE IF answer = "rag" THEN "rag_agent"
    ELSE "chatbot"

\* only the mode 'rag' selects the agent itself
ExplicitModeRagOnly(chat_mode) == chat_mode = "rag"

\* the mode selects the agent itself
ExplicitMode(chat_mode) == chat_mode \in {"rag", "general"}

\* "decision_reason"
DecisionReason(chat_mode) ==
    IF chat_mode = "rag" THEN <<"User selected 'My Resources' mode">>
    ELSE <<"User selected 'General' mode">>

\* what enhanced_supervisor_node returns
SupervisorReturn(state, chat_mode, decision) ==
    IF ExplicitMode(chat_mode)
    THEN Merge([state EXCEPT !.selected_agent = <<decision>>],
               [supervisor_decision |-> <<decision>>,
                decision_reason |-> DecisionReason(chat_mode)])
    ELSE [state EXCEPT !.selected_agent = <<decision>>]

\* enhanced_supervisor_node from its first await to its return
SupervisorBody(t) ==
    /\ pc[t] = "supervisor_body"
    /\ \E answer \in world.answers :
        LET explicit == ExplicitMode(req[t].chat_mode)
            fails == ~explicit /\ answer = "raise"
            status == IF fails THEN "error" ELSE "completed"
            decision == SupervisorDecision(req[t].chat_mode, answer)
            details == IF fails THEN <<"Supervisor routing failed", "routing_error">>
                       ELSE IF explicit THEN <<"Routed to", decision, "user preference">>
                       ELSE <<"Routed to", decision>>
            blk == Blocks(req[t].session_id, "supervisor", status)
            newst == SupervisorReturn(st[t], req[t].chat_mode, decision)
        IN  /\ explicit => answer = "rag"
            /\ NotifyProgress(t, "supervisor", status, details)
            /\ TurnStep(t, blk, NextNode("supervisor", newst), newst)
            /\ Exit(t, "supervisor", blk)
            /\ failed' = IF fails THEN [failed EXCEPT ![t] = @ \cup {"supervisor"}] ELSE failed
            /\ external' = IF explicit THEN external
                           ELSE [external EXCEPT ![t] = Append(@, <<"routing", answer>>)]
    /\ UNCHANGED <<world, managerVars, memoryVars, serviceVars, req, result, callbacks, now>>

\* ------------------------------------------------------------ chatbot node
Words(kind) == CASE kind = "w" -> 1 [] kind = "w." -> 1 [] kind = " " -> 0 [] kind = "w8" -> WordBatch

\* chunk.content.strip().endswith(('.', '!', '?', '\n'))
EndsSentence(kind) == kind = "w."

\* chunk_buffer.strip()
NonBlank(buffer) == \E i \in 1..Len(buffer) : buffer[i] # " "

\* an except clause that leaves no entry in the metadata
ChatErrorMetadataEmpty == EmptyMap

\* "error": str(e)
ChatErrorMetadata == [error |-> <<"chat_error">>]

\* the except clause of chatbot_agent_node; it returns the state the node was entered
\* with, so the tools_used and tool_results of the round are not in it
ChatExcept(t) ==
    LET blk == Blocks(req[t].session_id, "agent", "error")
    IN  /\ NotifyProgress(t, "agent", "error", <<"Chatbot agent failed", "chat_error">>)
        /\ TurnStep(t, blk, NextNode("chatbot", st[t]),
               DropLocals([st[t] EXCEPT !.agent_response = ChatApology,
                                        !.tools_used = <<>>,
                                        !.tool_results = <<>>,
                                        !.metadata = Merge(@, ChatErrorMetadata)]))
        /\ Exit(t, "chatbot", blk)
        /\ failed' = [failed EXCEPT ![t] = @ \cup {"chatbot"}]

\* chatbot_agent_node up to its first await
ChatStart(t) ==
    /\ pc[t] = "chatbot"
    /\ NotifyProgress(t, "agent", "active", <<"Processing conversation with AI agent...">>)
    /\ TurnStep(t, Blocks(req[t].session_id, "agent", "active"), "chat_invoke", st[t])
    /\ Enter(t, "chatbot")
    /\ UNCHANGED <<world, managerVars, memoryVars, serviceVars, external, req, result, callbacks, now, failed>>

\* the results of one round of tool calls: the name and the result of every call
ToolRounds ==
    UNION {[1..n -> [tool : ToolNames, outcome : {"ok", "raise"}]] : n \in 1..world.toolcalls}

\* the call is of a tool that tool_map lacks, or its invoke raises
ToolFails(call) == call.tool = "no_such_tool" \/ call.outcome = "raise"

\* a tool call whose failure leaves no error text
ToolResultSilent(call) == <<"result of", call.tool>>

\* the content of the ToolMessage of one call
ToolResult(call) ==
    IF call.tool = "no_such_tool" THEN <<"Unknown tool", call.tool>>
    ELSE IF call.outcome = "raise" THEN <<"Error using", call.tool>>
    ELSE <<"result of", call.tool>>

\* a loop that executes every call twice
ExecuteToolsTwice(calls) ==
    [i \in 1..(2 * Len(calls)) |->
        [tool |-> calls[(i + 1) \div 2].tool, result |-> ToolResult(calls[(i + 1) \div 2])]]

\* the loop over response.tool_calls: one entry of tool_results for every call
ExecuteTools(calls) ==
    [i \in 1..Len(calls) |-> [tool |-> calls[i].tool, result |-> ToolResult(calls[i])]]

\* chatbot_agent_node: calendar approval, first generation and the round of tool calls
ChatInvoke(t) ==
    /\ pc[t] = "chat_invoke"
    /\ \/ /\ Faults
          /\ ChatExcept(t)
       \/ /\ Faults
          /\ NoNotify
          /\ TurnStep(t, FALSE, "chat_complete",
                 [st[t] EXCEPT !.agent_response = <<"calendar approval handled">>])
          /\ UNCHANGED <<stagelog, failed>>
       \/ /\ NoNotify
          /\ TurnStep(t, FALSE, "chat_stream", [st[t] EXCEPT !.branch = "direct"])
          /\ UNCHANGED <<stagelog, failed>>
       \/ \E calls \in ToolRounds :
          /\ Faults
          /\ \A i \in 1..Len(calls) : calls[i].tool = "no_such_tool" => calls[i].outcome = "ok"
          /\ NoNotify
          /\ TurnStep(t, FALSE, "chat_stream",
                 [st[t] EXCEPT !.branch = "tools",
                               !.tools_used = [i \in 1..Len(calls) |-> calls[i].tool],
                               !.tool_results = ExecuteTools(calls)])
          /\ UNCHANGED stagelog
          /\ failed' = IF \E i \in 1..Len(calls) : ToolFails(calls[i])
                       THEN [failed EXCEPT ![t] = @ \cup {"tool"}]
                       ELSE failed
    /\ UNCHANGED <<world, managerVars, memoryVars, serviceVars, external, req, result, callbacks, now>>

\* one chunk of llm.stream, with the update it may send
ChatChunk(t) ==
    /\ pc[t] = "chat_stream"
    /\ st[t].chunks < MaxChunks
    /\ \E kind \in ChunkChoices :
        LET response == Append(st[t].agent_response, kind)
            count == st[t].word_count + Words(kind)
            flush == count >= WordBatch \/ EndsSentence(kind)
            blk == flush /\ Blocks(req[t].session_id, "streaming", "partial")
        IN  /\ IF flush THEN NotifyProgress(t, "streaming", "partial", response) ELSE NoNotify
            /\ TurnStep(t, blk, "chat_stream",
                   [st[t] EXCEPT !.agent_response = response,
                                 !.chunks = @ + 1,
                                 !.chunk_buffer = IF flush THEN <<>> ELSE Append(@, kind),
                                 !.word_count = IF flush THEN 0 ELSE count])
    /\ UNCHANGED <<world, managerVars, memoryVars, serviceVars, external, req, result, callbacks, now, stagelog, failed>>

\* llm.stream raises
ChatStreamRaise(t) ==
    /\ pc[t] = "chat_stream"
    /\ Faults
    /\ ChatExcept(t)
    /\ UNCHANGED <<world, managerVars, memoryVars, serviceVars, external, req, result, callbacks, now>>

\* llm.stream is exhausted: the final update, or the fallback to a plain generation
ChatStreamEnd(t) ==
    /\ pc[t] = "chat_stream"
    /\ \/ /\ NonBlank(st[t].chunk_buffer)
          /\ NotifyProgress(t, "streaming", "partial", st[t].agent_response)
          /\ TurnStep(t, Blocks(req[t].session_id, "streaming", "partial"), "chat_complete", st[t])
          /\ UNCHANGED <<stagelog, failed>>
       \/ /\ ~NonBlank(st[t].chunk_buffer)
          /\ st[t].agent_response # <<>>
          /\ NoNotify
          /\ TurnStep(t, FALSE, "chat_complete", st[t])
          /\ UNCHANGED <<stagelog, failed>>
       \/ /\ st[t].agent_response = <<>>
          /\ NoNotify
          /\ TurnStep(t, FALSE, "chat_complete", [st[t] EXCEPT !.agent_response = <<"content">>])
          /\ UNCHANGED <<stagelog, failed>>
       \/ /\ st[t].agent_response = <<>>
          /\ st[t].branch = "tools"
          /\ Faults
          /\ ChatExcept(t)
    /\ UNCHANGED <<world, managerVars, memoryVars, serviceVars, external, req, result, callbacks, now>>

\* chatbot_agent_node from the metadata to its return
ChatComplete(t) ==
    /\ pc[t] = "chat_complete"
    /\ LET blk == Blocks(req[t].session_id, "agent", "completed")
       IN  /\ NotifyProgress(t, "agent", "completed", <<"Response generated">>)
           /\ TurnStep(t, blk, NextNode("chatbot", st[t]),
                  DropLocals([st[t] EXCEPT !.metadata = Merge(@,
                      [agent_type |-> <<"chatbot">>, tools_used |-> st[t].tools_used])]))
           /\ Exit(t, "chatbot", blk)
    /\ UNCHANGED <<world, managerVars, memoryVars, serviceVars, external, req, result, callbacks, now, failed>>

\* ---------------------------------------------------------------- RAG node
\* enhanced_rag_agent_node up to its first await
RagStart(t) ==
    /\ pc[t] = "rag_agent"
    /\ NotifyProgress(t, "agent", "active", <<"Searching documents and knowledge base...">>)
    /\ TurnStep(t, Blocks(req[t].session_id, "agent", "active"), "rag_retrieve", st[t])
    /\ Enter(t, "rag_agent")
    /\ UNCHANGED <<world, managerVars, memoryVars, serviceVars, external, req, result, callbacks, now, failed>>

\* the top_n of the call of rag_answer
TopN == 3
\* the passages of the index: a source and the chunk of it
HitPool == {[source |-> "handbook.pdf", chunk |-> 1], [source |-> "handbook.pdf", chunk |-> 2],
            [source |-> "notes.txt", chunk |-> 1]}
\* what retrieve can return: at most top_n passages, none of them twice
Retrievals == {h \in UNION {[1..n -> HitPool] : n \in 0..TopN} :
                  \A i, j \in 1..Len(h) : i # j => h[i] # h[j]}
\* a retrieval of one passage
OneHit == <<[source |-> "handbook.pdf", chunk |-> 1]>>
HitChoices == world.hits

\* [hit.get("source", "unknown") for hit in hits]
SourcesOf(hits) == [i \in 1..Len(hits) |-> hits[i].source]

\* the metadata of rag_answer
RagMetadata(hits) ==
    [agent_type |-> <<"rag_agent">>, hits_count |-> <<Len(hits)>>, sources |-> SourcesOf(hits)]
\* an except clause that names its entry 'error'
RagErrorMetadataAsError == [agent_type |-> <<"rag_agent">>, hits_count |-> <<0>>, sources |-> <<>>,
                            error |-> <<"rag_error">>]

\* the metadata of the inner except clause
RagErrorMetadata == [agent_type |-> <<"rag_agent">>, hits_count |-> <<0>>, sources |-> <<>>,
                     rag_error |-> <<"rag_error">>]

\* the inner except clause of enhanced_rag_agent_node
RagExcept(t) ==
    /\ NoNotify
    /\ TurnStep(t, FALSE, "rag_complete",
           [st[t] EXCEPT !.rag_response = RagApology, !.branch = "failed"])
    /\ failed' = [failed EXCEPT ![t] = @ \cup {"rag_agent"}]

\* rag_answer and the first streamed update
RagRetrieve(t) ==
    /\ pc[t] = "rag_retrieve"
    /\ \/ /\ Faults
          /\ RagExcept(t)
       \/ /\ NotifyProgress(t, "streaming", "partial", <<"rag answer">>)
          /\ \E hits \in HitChoices :
                TurnStep(t, Blocks(req[t].session_id, "streaming", "partial"),
                    IF st[t].has_context THEN "rag_enhance" ELSE "rag_complete",
                    [st[t] EXCEPT !.rag_response = <<"rag answer">>, !.hits = hits,
                                  !.branch = "retrieved"])
          /\ UNCHANGED failed
    /\ UNCHANGED <<world, managerVars, memoryVars, serviceVars, external, req, result, callbacks, now, stagelog>>

\* one chunk of the streamed enhancement, with its update
RagChunk(t) ==
    /\ pc[t] = "rag_enhance"
    /\ st[t].chunks < MaxChunks
    /\ LET enhanced == Append(st[t].chunk_buffer, "w")
       IN  /\ NotifyProgress(t, "streaming", "partial", enhanced)
           /\ TurnStep(t, Blocks(req[t].session_id, "streaming", "partial"), "rag_enhance",
                  [st[t] EXCEPT !.chunk_buffer = enhanced, !.chunks = @ + 1])
    /\ UNCHANGED <<world, managerVars, memoryVars, serviceVars, external, req, result, callbacks, now, stagelog, failed>>

\* the enhancement raises: the original answer is streamed again
RagEnhanceRaise(t) ==
    /\ pc[t] = "rag_enhance"
    /\ Faults
    /\ NotifyProgress(t, "streaming", "partial", st[t].rag_response)
    /\ TurnStep(t, Blocks(req[t].session_id, "streaming", "partial"), "rag_complete", st[t])
    /\ failed' = [failed EXCEPT ![t] = @ \cup {"enhancement"}]
    /\ UNCHANGED <<world, managerVars, memoryVars, serviceVars, external, req, result, callbacks, now, stagelog>>

\* the enhancement stream is exhausted
RagEnhanceEnd(t) ==
    /\ pc[t] = "rag_enhance"
    /\ NoNotify
    /\ TurnStep(t, FALSE, "rag_complete",
           [st[t] EXCEPT !.rag_response =
                IF st[t].chunk_buffer # <<>> THEN st[t].chunk_buffer ELSE @])
    /\ UNCHANGED <<world, managerVars, memoryVars, serviceVars, external, req, result, callbacks, now, stagelog, failed>>

\* a return that answers a failed search with an ordinary answer
RagReturnNoApology(state, metadata) ==
    DropLocals([state EXCEPT !.agent_response = IF state.branch = "failed" THEN <<"rag answer">>
                                                ELSE state.rag_response,
                             !.metadata = Merge(@, metadata)])

\* the state enhanced_rag_agent_node returns: the response and the merged metadata
RagReturn(state, metadata) ==
    DropLocals([state EXCEPT !.agent_response = state.rag_response,
                             !.metadata = Merge(@, metadata)])

\* enhanced_rag_agent_node from the metadata to its return
RagComplete(t) ==
    /\ pc[t] = "rag_complete"
    /\ LET blk == Blocks(req[t].session_id, "agent", "completed")
           metadata == IF st[t].branch = "failed" THEN RagErrorMetadata
                       ELSE RagMetadata(st[t].hits)
       IN  /\ NotifyProgress(t, "agent", "completed",
                  IF st[t].branch = "failed" THEN <<"Document search failed">>
                  ELSE <<"Found relevant documents">>)
           /\ TurnStep(t, blk, NextNode("rag_agent", st[t]), RagReturn(st[t], metadata))
           /\ Exit(t, "rag_agent", blk)
    /\ UNCHANGED <<world, managerVars, memoryVars, serviceVars, external, req, result, callbacks, now, failed>>

\* ------------------------------------------------------ memory update node
\* enhanced_memory_update_node up to its first await
MemoryUpdateStart(t) ==
    /\ pc[t] = "memory_update"
    /\ NotifyProgress(t, "update", "active", <<"Saving conversation to memory system...">>)
    /\ TurnStep(t, Blocks(req[t].session_id, "update", "active"), "memory_update_body", st[t])
    /\ Enter(t, "memory_update")
    /\ UNCHANGED <<world, managerVars, memoryVars, serviceVars, external, req, result, callbacks, now, failed>>

\* state["memory_context"].get("memory_agent")
HasMemoryAgent(state) == state.memory_context \in {"real", "real_context", "mock"}

\* a memory update whose failure replaces the answer
MemoryUpdateReturnDropsAnswer(state, fails) ==
    [state EXCEPT !.agent_response = IF fails THEN FallbackAnswer ELSE @,
                  !.metadata = Merge(@,
        IF fails THEN [memory_update_error |-> <<"update_error">>]
        ELSE IF HasMemoryAgent(state) THEN [memory_updated |-> <<"True">>]
        ELSE [memory_updated |-> <<"False">>])]

\* what enhanced_memory_update_node returns
MemoryUpdateReturn(state, fails) ==
    [state EXCEPT !.metadata = Merge(@,
        IF fails THEN [memory_update_error |-> <<"update_error">>]
        ELSE IF HasMemoryAgent(state) THEN [memory_updated |-> <<"True">>]
        ELSE [memory_updated |-> <<"False">>])]

\* enhanced_memory_update_node from its first await to its return
MemoryUpdateBody(t) ==
    /\ pc[t] = "memory_update_body"
    /\ \E outcome \in IF Faults THEN {"ok", "raise"} ELSE {"ok"} :
        LET fails == HasMemoryAgent(st[t]) /\ outcome = "raise"
            status == IF fails THEN "error" ELSE "completed"
            details == IF fails THEN <<"Memory update failed", "update_error">>
                       ELSE IF HasMemoryAgent(st[t]) THEN <<"Conversation saved to memory">>
                       ELSE <<"Memory update skipped (no agent available)">>
            blk == Blocks(req[t].session_id, "update", status)
        IN  /\ outcome = "raise" => st[t].memory_context \in {"real", "real_context"}
            /\ NotifyProgress(t, "update", status, details)
            /\ TurnStep(t, blk, NextNode("memory_update", st[t]), MemoryUpdateReturn(st[t], fails))
            /\ Exit(t, "memory_update", blk)
            /\ failed' = IF fails THEN [failed EXCEPT ![t] = @ \cup {"memory_update"}] ELSE failed
    /\ UNCHANGED <<world, managerVars, memoryVars, serviceVars, external, req, result, callbacks, now>>

\* ------------------------------------------- process_with_progress_tracking
\* final_state["memory_context"].get("context_summary", "")
ContextSummary(state) ==
    CASE state.memory_context = "real_context" -> <<"context">>
      [] state.memory_context \in {"real", "mock"} -> <<"No context available">>
      [] OTHER -> <<>>

\* a result without the summary of the memory context
TurnResultNoSummary(state) ==
    [outcome |-> "returned",
     response |-> state.agent_response,
     agent_used |-> state.selected_agent,
     metadata |-> state.metadata,
     tools_used |-> state.tools_used,
     wikipedia_results |-> <<>>]

\* the result built from final_state; its wikipedia_results is the list of the initial
\* state, which no node writes (the strategy writes tool_results)
TurnResult(state) ==
    [outcome |-> "returned",
     response |-> state.agent_response,
     agent_used |-> state.selected_agent,
     metadata |-> state.metadata,
     tools_used |-> state.tools_used,
     wikipedia_results |-> <<>>,
     memory_context_summary |-> ContextSummary(state)]

\* an except clause that raises again
ErrorResultReraised(e) == [outcome |-> "raised"]

\* an except clause that answers with the apology of the chatbot
ErrorResultOtherText(e) ==
    [outcome |-> "returned",
     response |-> ChatApology,
     agent_used |-> <<"error">>,
     metadata |-> [error |-> <<e>>],
     tools_used |-> <<>>,
     wikipedia_results |-> <<>>,
     memory_context_summary |-> <<>>]

\* the result of the except clause
ErrorResult(e) ==
    [outcome |-> "returned",
     response |-> FallbackAnswer,
     agent_used |-> <<"error">>,
     metadata |-> [error |-> <<e>>],
     tools_used |-> <<>>,
     wikipedia_results |-> <<>>,
     memory_context_summary |-> <<>>]

\* ainvoke returned: the result, and the finally clause
Finish(t) ==
    /\ pc[t] = "END"
    /\ pc' = [pc EXCEPT ![t] = "done"]
    /\ result' = [result EXCEPT ![t] = TurnResult(st[t])]
    /\ callbacks' = UnregisterSession(callbacks, req[t].session_id)
    /\ UNCHANGED <<world, managerVars, memoryVars, serviceVars, external, req, st, lastUpdates, now, emitted, lastCall, stagelog, failed, lastStream>>

\* ainvoke raised while it dispatched a node: the except and the finally clause
WorkflowRaise(t) ==
    /\ pc[t] \in Nodes
    /\ LET blk == Blocks(req[t].session_id, "error", "error")
       IN  /\ NotifyProgress(t, "error", "error", <<"Workflow failed", "workflow_error">>)
           /\ pc' = [pc EXCEPT ![t] = IF blk THEN "blocked" ELSE "done"]
           /\ result' = IF blk THEN result ELSE [result EXCEPT ![t] = ErrorResult("workflow_error")]
           /\ callbacks' = IF blk THEN callbacks
                           ELSE UnregisterSession(callbacks, req[t].session_id)
    /\ failed' = [failed EXCEPT ![t] = @ \cup {"workflow"}]
    /\ UNCHANGED <<world, managerVars, memoryVars, serviceVars, external, req, st, now, stagelog>>

\* the task of the turn is cancelled at an await: only the finally clause runs
Cancel(t) ==
    /\ pc[t] \notin {"idle", "done", "cancelled"}
    /\ pc' = [pc EXCEPT ![t] = "cancelled"]
    /\ result' = [result EXCEPT ![t] = [outcome |-> "cancelled"]]
    /\ callbacks' = UnregisterSession(callbacks, req[t].session_id)
    /\ UNCHANGED <<world, managerVars, memoryVars, serviceVars, external, req, st, lastUpdates, now, emitted, lastCall, stagelog, failed, lastStream>>

\* --------------------------------------------------------- guardrail stage
GuardrailVerdicts == {"valid", "invalid"}

RejectionAnswer == <<"Sorry, I couldn't process your request.">>

\* input_guardrails_node: the verdict of the validator is left in the state
InputGuardrailsNode(state, verdict) ==
    IF verdict = "invalid"
    THEN Merge(state, [validation_failed |-> TRUE, validation_error |-> <<"validation_error">>])
    ELSE Merge(state, [validation_failed |-> FALSE])

\* a routing function that lets every message through
ShouldContinueAlways(state) == "continue"

\* should_continue_after_validation
ShouldContinueAfterValidation(state) ==
    IF "validation_failed" \in DOMAIN state /\ state.validation_failed THEN "end" ELSE "continue"

\* the output guardrail on the rejection message
OutputGuardrailsNode(state) ==
    [state EXCEPT !.agent_response = RejectionAnswer,
                  !.metadata = Merge(@, [status |-> <<"rejected">>])]

\* process_with_progress_tracking up to the call of ainvoke, guardrails enabled
StartGuarded(t) ==
    /\ pc[t] = "idle"
    /\ t \in world.turns
    /\ \E sid \in world.sessions[t], mode \in world.modes, ob \in world.observers,
          msg \in world.messages :
        /\ req' = [req EXCEPT ![t] = [session_id |-> sid, chat_mode |-> mode, observer |-> ob,
                                      message |-> msg]]
        /\ callbacks' = IF ob # "none" THEN RegisterCallback(callbacks, sid, t) ELSE callbacks
    /\ pc' = [pc EXCEPT ![t] = "input_guardrails"]
    /\ st' = [st EXCEPT ![t] = InitialState]
    /\ UNCHANGED <<world, managerVars, memoryVars, serviceVars, external, result, lastUpdates, now, emitted, lastCall,
                   stagelog, failed, lastStream>>

\* the input guardrail and the edge that follows it
InputGuardrails(t) ==
    /\ pc[t] = "input_guardrails"
    /\ \E verdict \in GuardrailVerdicts :
        LET newst == InputGuardrailsNode(st[t], verdict)
        IN  /\ TurnStep(t, FALSE,
                   IF ShouldContinueAfterValidation(newst) = "continue"
                   THEN NextNode("START", newst) ELSE "output_guardrails",
                   newst)
            /\ failed' = IF verdict = "invalid"
                         THEN [failed EXCEPT ![t] = @ \cup {"validation"}]
                         ELSE failed
    /\ NoNotify
    /\ UNCHANGED <<world, managerVars, memoryVars, serviceVars, external, req, result, callbacks, now, stagelog>>

\* the rejected branch: the output guardrail, then END
OutputGuardrailsRejected(t) ==
    /\ pc[t] = "output_guardrails"
    /\ TurnStep(t, FALSE, "END", OutputGuardrailsNode(st[t]))
    /\ NoNotify
    /\ UNCHANGED <<world, managerVars, memoryVars, serviceVars, external, req, result, callbacks, now, stagelog, failed>>

\* ---- MemoryAgent: the stores of one user, shared by every process that serves him ----

\* cfg.short_term_window, set through SHORT_TERM_WINDOW
ShortTermWindow == 1

Persisters == {"p1", "p2"}
MemThreads == {"s1", "s2"}
\* what extract_facts can find in a user message
FactSets == {EmptyMap, [name |-> "a"], [name |-> "b", city |-> "c"]}

NoPersist == [pc |-> "idle", thread_id |-> None, timestamp |-> 0, facts |-> EmptyMap,
              existing |-> EmptyMap, new |-> EmptyMap, failed_at |-> None,
              state |-> InitialState]

\* an update in which every failure ends the update
PropagatesAll(step) == TRUE

\* the failure of the step leaves MemoryAgent.update: extract_facts catches its own
Propagates(step) == step # "extract"

\* a merge in which the stored value wins
MergeFactsKeepOld(existing, new) == Merge(new, existing)

\* merged = {**existing, **new}
MergeFacts(existing, new) == Merge(existing, new)

\* extract_facts: the facts of the message, {} when the call or the parsing raises
ExtractFacts(facts, outcome) == IF outcome = "ok" THEN facts ELSE EmptyMap

\* the state with which enhanced_memory_update_node is entered for an answer
PersistState == [InitialState EXCEPT !.memory_context = "real",
                                     !.selected_agent = <<"chatbot">>,
                                     !.agent_response = <<"answer">>]

\* the update of persister p ends at a step that raised: the except clause of the node
PersistRaised(p, step) ==
    [persists EXCEPT ![p].pc = "raised", ![p].failed_at = step,
                     ![p].state = MemoryUpdateReturn(PersistState, TRUE)]

\* one step of update: it goes on, or it raises and the failure leaves update or not
StepOutcomes(step) == IF Faults THEN {"ok", "raise"} ELSE {"ok"}

\* enhanced_memory_update_node calls update: the timestamp and insert_many
PersistBegin(p) ==
    /\ p \in world.persisters
    /\ persists[p].pc \in {"idle", "ok", "raised"}
    /\ clock < MaxPersists
    /\ clock' = clock + 1
    /\ \E thread \in world.threads, facts \in world.facts, outcome \in StepOutcomes("insert") :
        LET begun == [persists EXCEPT ![p] = [NoPersist EXCEPT !.thread_id = thread,
                                                              !.timestamp = clock + 1,
                                                              !.facts = facts,
                                                              !.state = PersistState]]
            doc(role) == [thread_id |-> thread, role |-> role, timestamp |-> clock + 1]
        IN  IF outcome = "raise" /\ Propagates("insert")
            THEN /\ persists' = [begun EXCEPT ![p].pc = "raised", ![p].failed_at = "insert",
                                   ![p].state = MemoryUpdateReturn(PersistState, TRUE)]
                 /\ UNCHANGED messages_col
            ELSE /\ persists' = [begun EXCEPT ![p].pc = "inserted"]
                 /\ messages_col' = messages_col \o <<doc("user"), doc("assistant")>>
    /\ UNCHANGED <<world, turnVars, managerVars, serviceVars, facts_col, qdrant_store, fetched>>

\* qdrant_store.add_documents
PersistLongTerm(p) ==
    /\ persists[p].pc = "inserted"
    /\ \E outcome \in StepOutcomes("long_term") :
        IF outcome = "raise" /\ Propagates("long_term")
        THEN /\ persists' = PersistRaised(p, "long_term")
             /\ UNCHANGED qdrant_store
        ELSE /\ persists' = [persists EXCEPT ![p].pc = "stored"]
             /\ qdrant_store' = qdrant_store \cup
                    {[thread_id |-> persists[p].thread_id, timestamp |-> persists[p].timestamp]}
    /\ UNCHANGED <<world, turnVars, managerVars, serviceVars, facts_col, messages_col, clock, fetched>>

\* existing = self.get_user_facts()
PersistReadFacts(p) ==
    /\ persists[p].pc = "stored"
    /\ \E outcome \in StepOutcomes("read_facts") :
        IF outcome = "raise" /\ Propagates("read_facts")
        THEN persists' = PersistRaised(p, "read_facts")
        ELSE persists' = [persists EXCEPT ![p].pc = "read", ![p].existing = facts_col]
    /\ UNCHANGED <<world, turnVars, managerVars, serviceVars, facts_col, messages_col, qdrant_store, clock,
                   fetched>>

\* extract_facts, the merge and update_one; update returns to the node
PersistWriteFacts(p) ==
    /\ persists[p].pc = "read"
    /\ \E extraction \in StepOutcomes("extract"), outcome \in StepOutcomes("write_facts") :
        LET new == ExtractFacts(persists[p].facts, IF extraction = "raise" THEN "error" ELSE "ok")
            merged == MergeFacts(persists[p].existing, new)
        IN  /\ extraction = "raise" => persists[p].facts # EmptyMap
            /\ outcome = "raise" => merged # EmptyMap
            /\ IF extraction = "raise" /\ Propagates("extract")
               THEN /\ persists' = PersistRaised(p, "extract")
                    /\ UNCHANGED facts_col
               ELSE IF outcome = "raise" /\ Propagates("write_facts")
               THEN /\ persists' = [PersistRaised(p, "write_facts") EXCEPT ![p].new = new]
                    /\ UNCHANGED facts_col
               ELSE /\ persists' = [persists EXCEPT ![p].pc = "ok", ![p].new = new,
                                      ![p].failed_at = IF extraction = "raise" THEN "extract"
                                                       ELSE None,
                                      ![p].state = MemoryUpdateReturn(PersistState, FALSE)]
                    /\ facts_col' = IF merged # EmptyMap THEN merged ELSE facts_col
    /\ UNCHANGED <<world, turnVars, managerVars, serviceVars, messages_col, qdrant_store, clock, fetched>>

RECURSIVE TieOrders(_)
\* the orders in which a cursor may return documents whose sort keys are equal
TieOrders(docs) ==
    IF docs = {} THEN {<<>>}
    ELSE UNION {{<<d>> \o rest : rest \in TieOrders(docs \ {d})} : d \in docs}

RECURSIVE SortDescending(_)
\* sort("timestamp", -1): every order of the documents with the newest first
SortDescending(docs) ==
    IF docs = {} THEN {<<>>}
    ELSE LET newest == CHOOSE ts \in {d.timestamp : d \in docs} :
                           \A d \in docs : d.timestamp <= ts
             first == {d \in docs : d.timestamp = newest}
         IN  UNION {{head \o rest : rest \in SortDescending(docs \ first)} :
                        head \in TieOrders(first)}

\* limit(n)
Limit(seq, n) == SubSeq(seq, 1, IF Len(seq) < n THEN Len(seq) ELSE n)

\* list[::-1]
Reversed(seq) == [i \in 1..Len(seq) |-> seq[Len(seq) + 1 - i]]

\* fetch_short_term: what the call can return for a thread
ShortTermResults(collection, thread) ==
    LET found == {collection[i] : i \in {j \in 1..Len(collection) :
                                             collection[j].thread_id = thread}}
    IN  {Reversed(Limit(sorted, ShortTermWindow * 2)) : sorted \in SortDescending(found)}

\* enhanced_memory_fetch_node calls fetch_short_term for a thread
FetchShortTerm ==
    /\ \E thread \in world.threads :
        \E messages \in ShortTermResults(messages_col, thread) :
            fetched' = [thread_id |-> thread, messages |-> messages]
    /\ UNCHANGED <<world, turnVars, managerVars, serviceVars, facts_col, messages_col, qdrant_store,
                   persists, clock>>

\* ---- GoogleCalendarTool: the one calendar_tool of the process, used by every turn ----

MaxProposals == 3
CalendarUsers == {"u1", "u2"}
ProposalActions == {"create_event", "update_event"}
\* f"proposal_{n}"
ProposalId(n) == <<"proposal", n>>
ProposalIds == {ProposalId(n) : n \in 0..(MaxProposals - 1)}
\* no id, and no proposal
NoId == <<>>
NoProposal == [id |-> NoId, action |-> None, serial |-> 0, owner |-> None]
NoOp == [op |-> None, via |-> None, user |-> None, id |-> NoId, status |-> None,
         proposal |-> NoProposal]

\* the messages chatbot_agent_node takes for an approval or a rejection: with the id of
\* a proposal as the last word (here the first id), or without an id
ApprovalMessages ==
    {[verb |-> v, id |-> i] : v \in {"approve", "reject"}, i \in {ProposalId(0), NoId}}

\* list.remove(x): the list without the first element equal to x
RemoveFirst(seq, x) ==
    IF \E i \in 1..Len(seq) : seq[i] = x
    THEN LET k == CHOOSE i \in 1..Len(seq) : seq[i] = x /\ \A j \in 1..(i - 1) : seq[j] # x
         IN  [i \in 1..(Len(seq) - 1) |-> IF i < k THEN seq[i] ELSE seq[i + 1]]
    ELSE seq

\* the first pending action with the id, as the loops of approve_action and
\* reject_action find it
FindProposal(pending, id) ==
    IF \E i \in 1..Len(pending) : pending[i].id = id
    THEN pending[CHOOSE i \in 1..Len(pending) :
                    pending[i].id = id /\ \A j \in 1..(i - 1) : pending[j].id # id]
    ELSE NoProposal

\* proposal_id = f"proposal_{len(self.pending_actions)}"
NewProposalId(pending, count) == ProposalId(Len(pending))

\* create_event_proposal and update_event_proposal: the proposal appended to the list.
\* owner is history: the user of the turn that asked for the proposal
NewProposal(pending, count, action, user) ==
    [id |-> NewProposalId(pending, count), action |-> action, serial |-> count + 1,
     owner |-> user]

\* an approval that takes the proposal off the list before the insertion
ApproveActionRemovesFirst(pending, id, auth, insert) ==
    LET proposal == FindProposal(pending, id)
    IN  IF auth = "raise" THEN [status |-> "error", pending |-> pending, inserted |-> NoProposal,
                                proposal |-> NoProposal]
        ELSE IF proposal = NoProposal THEN [status |-> "error", pending |-> pending,
                                      inserted |-> NoProposal, proposal |-> NoProposal]
        ELSE IF proposal.action # "create_event"
        THEN [status |-> None, pending |-> pending, inserted |-> NoProposal, proposal |-> proposal]
        ELSE IF insert = "raise"
        THEN [status |-> "error", pending |-> RemoveFirst(pending, proposal),
              inserted |-> NoProposal, proposal |-> proposal]
        ELSE [status |-> "success", pending |-> RemoveFirst(pending, proposal),
              inserted |-> proposal, proposal |-> proposal]

\* approve_action: what it returns, the list it leaves and the event it inserted
ApproveAction(pending, id, auth, insert) ==
    LET proposal == FindProposal(pending, id)
    IN  IF auth = "raise" THEN [status |-> "error", pending |-> pending, inserted |-> NoProposal,
                                proposal |-> NoProposal]
        ELSE IF proposal = NoProposal THEN [status |-> "error", pending |-> pending,
                                      inserted |-> NoProposal, proposal |-> NoProposal]
        ELSE IF proposal.action # "create_event"
        THEN [status |-> None, pending |-> pending, inserted |-> NoProposal, proposal |-> proposal]
        ELSE IF insert = "raise"
        THEN [status |-> "error", pending |-> pending, inserted |-> NoProposal,
              proposal |-> proposal]
        ELSE [status |-> "success", pending |-> RemoveFirst(pending, proposal),
              inserted |-> proposal, proposal |-> proposal]

\* reject_action: what it returns and the list it leaves
RejectAction(pending, id) ==
    LET proposal == FindProposal(pending, id)
    IN  IF proposal = NoProposal
        THEN [status |-> "error", pending |-> pending, inserted |-> NoProposal, proposal |-> NoProposal]
        ELSE [status |-> "rejected", pending |-> RemoveFirst(pending, proposal),
              inserted |-> NoProposal, proposal |-> proposal]

\* the state of the tool after an approval or a rejection returned outcome
ApplyOutcome(op, via, user, id, outcome) ==
    /\ pending_actions' = outcome.pending
    /\ calendar_events' = IF outcome.inserted # NoProposal
                          THEN Append(calendar_events, outcome.inserted)
                          ELSE calendar_events
    /\ rejected' = IF op = "reject" /\ outcome.proposal # NoProposal
                   THEN rejected \cup {outcome.proposal.serial}
                   ELSE rejected
    /\ lastOp' = [op |-> op, via |-> via, user |-> user, id |-> id,
                  status |-> outcome.status, proposal |-> outcome.proposal]
    /\ UNCHANGED serial

\* create_calendar_event called by the model in a turn of the user, or
\* update_event_proposal: a proposal is appended, or parse_datetime raises
CreateProposal(user, action) ==
    /\ user \in world.calendar
    /\ serial < MaxProposals
    /\ \E outcome \in {"ok", "raise"} :
        IF outcome = "raise"
        THEN /\ lastOp' = [NoOp EXCEPT !.op = action, !.via = "tool", !.user = user,
                                       !.status = "error"]
             /\ UNCHANGED <<pending_actions, serial>>
        ELSE LET proposal == NewProposal(pending_actions, serial, action, user)
             IN  /\ pending_actions' = Append(pending_actions, proposal)
                 /\ serial' = serial + 1
                 /\ lastOp' = [op |-> action, via |-> "tool", user |-> user,
                               id |-> proposal.id, status |-> "pending_approval",
                               proposal |-> proposal]
    /\ UNCHANGED <<world, turnVars, managerVars, memoryVars, cacheVars, socketVars, calendar_events, rejected>>

CreateEventProposal(user) == CreateProposal(user, "create_event")
UpdateEventProposal(user) == CreateProposal(user, "update_event")

\* the approval endpoint: approve_action or reject_action with the id of the request
ApiApproval(id, approved) ==
    /\ world.calendar # {}
    /\ \E auth \in {"ok", "raise"}, insert \in {"ok", "raise"} :
        /\ (auth = "raise") => (insert = "ok")
        /\ (~approved \/ FindProposal(pending_actions, id) = NoProposal)
              => (auth = "ok" /\ insert = "ok")
        /\ ApplyOutcome(IF approved THEN "approve" ELSE "reject", "api", None, id,
               IF approved THEN ApproveAction(pending_actions, id, auth, insert)
               ELSE RejectAction(pending_actions, id))
    /\ UNCHANGED <<world, turnVars, managerVars, memoryVars, cacheVars, socketVars>>

\* the proposal id chatbot_agent_node acts on: the one in the message, or else the id of
\* the most recent pending action
ChatProposalId(message, pending) ==
    IF message.id # NoId THEN message.id
    ELSE IF pending # <<>> THEN pending[Len(pending)].id
    ELSE NoId

\* chatbot_agent_node with a message that approves or rejects, in a turn of the user
ChatApproval(user, message) ==
    /\ user \in world.calendar
    /\ LET id == ChatProposalId(message, pending_actions)
       IN  /\ id # NoId
           /\ \E auth \in {"ok", "raise"}, insert \in {"ok", "raise"} :
                /\ (auth = "raise") => (insert = "ok")
                /\ (message.verb = "reject" \/ FindProposal(pending_actions, id) = NoProposal)
                      => (auth = "ok" /\ insert = "ok")
                /\ ApplyOutcome(message.verb, "chat", user, id,
                       IF message.verb = "approve"
                       THEN ApproveAction(pending_actions, id, auth, insert)
                       ELSE RejectAction(pending_actions, id))
    /\ UNCHANGED <<world, turnVars, managerVars, memoryVars, cacheVars, socketVars>>


\* ---- QueryCache over RedisManager ----

MaxCacheOps == 3
\* user queries as they are typed: " Q" differs from "q" in case and in a blank
Queries == {"q", " Q", "p", "q|c"}
NoContext == "none"
Contexts == {NoContext, "c"}
\* the queries that are asked, each with the context it is asked in
Asked == {<<"q", NoContext>>, <<" Q", NoContext>>, <<"q", "c">>, <<"p", NoContext>>,
          <<"q|c", NoContext>>}
Responses == {"r1", "r2"}
Metadatas == {[agent_type |-> <<"rag_agent">>]}

\* query.lower().strip()
QueryNormalized(query) ==
    CASE query \in {"q", " Q"} -> "q"
      [] OTHER -> query

\* sha256(...).hexdigest()[:16]: distinct texts of the model have distinct digests
Sha16(text) == <<"sha", text>>

\* _make_query_key: the context is part of the hashed text when there is one
MakeQueryKey(query, context) ==
    IF context # NoContext
    THEN <<"query", "response", Sha16(QueryNormalized(query) \o "|" \o context)>>
    ELSE <<"query", "response", Sha16(QueryNormalized(query))>>

\* _make_freq_key
MakeFreqKey(query) == <<"query", "freq", Sha16(QueryNormalized(query))>>

\* a value written by RedisManager.set is pickled; one created by INCRBY is a decimal
Pickled(n) == [kind |-> "pickled", n |-> n]
Raw(n) == [kind |-> "raw", n |-> n]
\* what get_query_frequency returns: an int, or the bytes of a value that does not unpickle
IntValue(n) == [kind |-> "int", n |-> n]
BytesValue(n) == [kind |-> "bytes", n |-> n]
NoValue == [kind |-> "none", n |-> 0]

\* the stored queries whose entry is not under one of the deleted keys
StillFresh(stored, deleted) ==
    [p \in {x \in DOMAIN stored : MakeQueryKey(x[1], x[2]) \notin deleted} |-> stored[p]]

\* metadata that is handed back as it was stored
MarkCachedNot(metadata) == metadata

\* metadata["cached"] = True; metadata["cache_hit"] = True
MarkCached(metadata) == Merge(metadata, [cached |-> <<"True">>, cache_hit |-> <<"True">>])

NoCache == [op |-> None, query |-> None, context |-> None, ok |-> FALSE, hit |-> FALSE,
            response |-> None, metadata |-> EmptyMap]

\* RedisManager.incr: INCRBY creates a missing key, adds to a decimal value, and fails
\* on a pickled one ("value is not an integer"), which incr logs and swallows
RedisIncr(db, key) ==
    IF key \notin DOMAIN db THEN Merge(db, [k \in {key} |-> Raw(1)])
    ELSE IF db[key].kind = "pickled" THEN db
    ELSE [db EXCEPT ![key] = Raw(@.n + 1)]

\* RedisManager.get of a frequency key: the unpickled value, or the raw value
RedisGetFreq(db, key) ==
    IF key \notin DOMAIN db THEN NoValue
    ELSE IF db[key].kind = "pickled" THEN IntValue(db[key].n)
    ELSE BytesValue(db[key].n)

\* get_query_frequency
GetQueryFrequency(query) ==
    LET freq == RedisGetFreq(freq_db, MakeFreqKey(query))
    IN  IF freq # NoValue THEN freq ELSE IntValue(0)

\* set_response and async_set_response
SetResponse(query, context, response, metadata) ==
    /\ <<query, context>> \in world.cache
    /\ cache_ops < MaxCacheOps
    /\ cache_ops' = cache_ops + 1
    /\ \E outcome \in {"ok", "raise"} :
        LET key == MakeQueryKey(query, context)
            cache_data == [query |-> query, response |-> response, metadata |-> metadata,
                           context |-> context]
        IN  IF outcome = "raise"
            THEN /\ lastCache' = [NoCache EXCEPT !.op = "set", !.query = query,
                                                !.context = context,
                                                !.response = response,
                                                !.metadata = metadata]
                 /\ UNCHANGED <<responses_db, freq_db, stored_queries, kept_entries>>
            ELSE /\ responses_db' = Merge(responses_db, [k \in {key} |-> cache_data])
                 /\ freq_db' = IF MakeFreqKey(query) \in DOMAIN freq_db THEN freq_db
                               ELSE Merge(freq_db, [k \in {MakeFreqKey(query)} |-> Pickled(1)])
                 /\ stored_queries' = stored_queries \cup {<<query, context>>}
                 /\ kept_entries' = Merge(kept_entries, [p \in {<<query, context>>} |->
                                 [response |-> response, metadata |-> metadata,
                                  at |-> cache_ops + 1]])
                 /\ lastCache' = [NoCache EXCEPT !.op = "set", !.query = query,
                                                !.context = context, !.ok = TRUE,
                                                !.response = response,
                                                !.metadata = metadata]
    /\ UNCHANGED <<world, turnVars, managerVars, memoryVars, calendarVars, socketVars, cache_hits,
                   cache_misses>>

\* get_response and async_get_response
GetResponse(query, context) ==
    /\ <<query, context>> \in world.cache
    /\ cache_ops < MaxCacheOps
    /\ cache_ops' = cache_ops + 1
    /\ \E outcome \in {"ok", "raise"} :
        LET key == MakeQueryKey(query, context)
        IN  IF outcome = "ok" /\ key \in DOMAIN responses_db
            THEN /\ cache_hits' = cache_hits + 1
                 /\ freq_db' = RedisIncr(freq_db, MakeFreqKey(query))
                 /\ lastCache' = [op |-> "get", query |-> query, context |-> context,
                                  ok |-> TRUE, hit |-> TRUE,
                                  response |-> responses_db[key].response,
                                  metadata |-> MarkCached(responses_db[key].metadata)]
                 /\ UNCHANGED cache_misses
            ELSE /\ cache_misses' = cache_misses + 1
                 /\ lastCache' = [NoCache EXCEPT !.op = "get", !.query = query,
                                                !.context = context,
                                                !.ok = (outcome = "ok")]
                 /\ UNCHANGED <<cache_hits, freq_db>>
    /\ UNCHANGED <<world, turnVars, managerVars, memoryVars, calendarVars, socketVars, responses_db,
                   stored_queries, kept_entries>>

\* invalidate_query: the response key is deleted
InvalidateQuery(query, context) ==
    /\ <<query, context>> \in world.cache
    /\ LET key == MakeQueryKey(query, context)
       IN  /\ responses_db' = [k \in DOMAIN responses_db \ {key} |-> responses_db[k]]
           /\ kept_entries' = StillFresh(kept_entries, {key})
           /\ lastCache' = [NoCache EXCEPT !.op = "invalidate", !.query = query,
                                          !.context = context,
                                          !.ok = (key \in DOMAIN responses_db)]
    /\ UNCHANGED <<world, turnVars, managerVars, memoryVars, calendarVars, socketVars, freq_db,
                   cache_hits, cache_misses, cache_ops, stored_queries>>

\* clear_all: every key query:* is deleted and the statistics start again
ClearAll ==
    /\ world.cache # {}
    /\ responses_db' = EmptyMap
    /\ freq_db' = EmptyMap
    /\ cache_hits' = 0
    /\ cache_misses' = 0
    /\ kept_entries' = EmptyMap
    /\ lastCache' = [NoCache EXCEPT !.op = "clear", !.ok = TRUE]
    /\ UNCHANGED <<world, turnVars, managerVars, memoryVars, calendarVars, socketVars, cache_ops,
                   stored_queries>>

\* the time-to-live of a key ends: one hour for a response, a day for a frequency
Expire ==
    /\ world.cache # {}
    /\ \/ \E key \in DOMAIN responses_db :
            /\ responses_db' = [k \in DOMAIN responses_db \ {key} |-> responses_db[k]]
            /\ kept_entries' = StillFresh(kept_entries, {key})
            /\ UNCHANGED freq_db
       \/ \E key \in DOMAIN freq_db :
            /\ freq_db' = [k \in DOMAIN freq_db \ {key} |-> freq_db[k]]
            /\ UNCHANGED <<responses_db, kept_entries>>
    /\ lastCache' = [NoCache EXCEPT !.op = "expire"]
    /\ UNCHANGED <<world, turnVars, managerVars, memoryVars, calendarVars, socketVars, cache_hits,
                   cache_misses, cache_ops, stored_queries>>

\* ---- handle_websocket_connection and the callback of process_message ----

MaxConnections == 3
Connections == 1..MaxConnections
NoConn == 0
SocketUsers == {"u1", "u2"}
SocketSessions == {"s1", "s2"}
\* db.get_session_by_id(session_id, user_id): the sessions a user may open
Accessible == {<<"u1", "s1">>, <<"u2", "s2">>}
\* the first message of a connection: no token, a token that does not verify, or the
\* token of a user
AuthTokens == {"missing", "invalid"} \cup SocketUsers

NoSocket == [pc |-> "new", session_id |-> None, user_id |-> None, websocket_key |-> None]
NoEvent == [websocket_key |-> None, from |-> NoConn, to |-> NoConn, owed |-> NoConn]

\* websocket_key = f"{user_id}:{session_id}"
WebsocketKey(user_id, session_id) == user_id \o ":" \o session_id

\* the finally clause: the key of the connection is deleted when it is registered
Cleanup(websockets, c, key) ==
    IF key # None /\ key \in DOMAIN websockets
    THEN [k \in DOMAIN websockets \ {key} |-> websockets[k]]
    ELSE websockets

\* websocket.accept() for the session of the path
Accept(c, session_id) ==
    /\ c \in world.sockets
    /\ sockets[c].pc = "new"
    /\ sockets' = [sockets EXCEPT ![c] = [@ EXCEPT !.pc = "accepted",
                                                   !.session_id = session_id]]
    /\ UNCHANGED <<world, turnVars, managerVars, memoryVars, calendarVars, cacheVars,
                   active_websockets, last_registered, lastEvent>>

\* the first message: the handler closes the connection without a key when the token
\* is missing or invalid or the session is not the user's, and registers it otherwise
Authenticate(c, token) ==
    /\ c \in world.sockets
    /\ sockets[c].pc = "accepted"
    /\ IF token \in SocketUsers /\ <<token, sockets[c].session_id>> \in Accessible
       THEN LET key == WebsocketKey(token, sockets[c].session_id)
            IN  /\ sockets' = [sockets EXCEPT ![c] = [@ EXCEPT !.pc = "open",
                                                              !.user_id = token,
                                                              !.websocket_key = key]]
                /\ active_websockets' = Merge(active_websockets, [k \in {key} |-> c])
                /\ last_registered' = Merge(last_registered, [k \in {key} |-> c])
       ELSE /\ sockets' = [sockets EXCEPT ![c] = [@ EXCEPT !.pc = "closed"]]
            /\ active_websockets' =
                   Cleanup(active_websockets, c, sockets[c].websocket_key)
            /\ UNCHANGED last_registered
    /\ UNCHANGED <<world, turnVars, managerVars, memoryVars, calendarVars, cacheVars,
                   lastEvent>>

\* websocket_callback of a turn of the connection: the event goes to the connection
\* registered under the key, if any
WebsocketCallback(c) ==
    /\ c \in world.sockets
    /\ sockets[c].pc = "open"
    /\ LET key == sockets[c].websocket_key
           last == last_registered[key]
       IN  lastEvent' = [websocket_key |-> key, from |-> c,
                         to |-> IF key \in DOMAIN active_websockets
                                THEN active_websockets[key] ELSE NoConn,
                         owed |-> IF sockets[last].pc = "open" THEN last ELSE NoConn]
    /\ UNCHANGED <<world, turnVars, managerVars, memoryVars, calendarVars, cacheVars,
                   active_websockets, sockets, last_registered>>

\* the client goes away: receive_text raises WebSocketDisconnect and the finally
\* clause cleans up
Disconnect(c) ==
    /\ c \in world.sockets
    /\ sockets[c].pc \in {"accepted", "open"}
    /\ sockets' = [sockets EXCEPT ![c] = [@ EXCEPT !.pc = "closed"]]
    /\ active_websockets' = Cleanup(active_websockets, c, sockets[c].websocket_key)
    /\ UNCHANGED <<world, turnVars, managerVars, memoryVars, calendarVars, cacheVars,
                   last_registered, lastEvent>>

\* ---- the session registry of DatabaseAwareMultiAgentManager ----

\* ids are sequences of characters; the ids of users and sessions have no ':'
UserIds == {<<"u1">>, <<"u2">>}
ThreadIds == {<<"s1">>, <<"s2">>}

\* a key that leaves the session out
SystemKeyUserOnly(user_id, session_id) == user_id \o <<":">>

\* system_key = f"{user_id}:{session_id}"
SystemKey(user_id, session_id) == user_id \o <<":">> \o session_id

\* a registry that creates a system on every call
GetOrCreateSystemAlways(systems, key, fresh) == Merge(systems, [k \in {key} |-> fresh])

\* get_or_create_system: the registry after the call; fresh is the system that
\* create_langgraph_system would construct
GetOrCreateSystem(systems, key, fresh) ==
    IF key \notin DOMAIN systems THEN Merge(systems, [k \in {key} |-> fresh])
    ELSE systems

\* process_message is entered and awaits db.get_session_by_id
ReceiveMessage(m) ==
    /\ msgs[m].pc = "idle"
    /\ \E u \in UserIds, s \in ThreadIds :
          msgs' = [msgs EXCEPT ![m] = [pc |-> "db", user_id |-> u, session_id |-> s, system |-> 0]]
    /\ UNCHANGED <<world, turnVars, memoryVars, serviceVars, langgraph_systems, created>>

\* the database has answered: process_message calls get_or_create_system, which
\* has no await and so runs without interleaving
GetSystem(m) ==
    /\ msgs[m].pc = "db"
    /\ LET key == SystemKey(msgs[m].user_id, msgs[m].session_id)
           fresh == Len(created) + 1
           systems == GetOrCreateSystem(langgraph_systems, key, fresh)
       IN /\ langgraph_systems' = systems
          /\ created' = IF systems[key] = fresh THEN Append(created, key) ELSE created
          /\ msgs' = [msgs EXCEPT ![m].pc = "got", ![m].system = systems[key]]
    /\ UNCHANGED <<world, turnVars, memoryVars, serviceVars>>

\* process_message calls process_with_progress_tracking on its system with six
\* arguments; the method takes at most four, the call raises and process_message
\* raises it again
CallSystem(m) ==
    /\ msgs[m].pc = "got"
    /\ msgs' = [msgs EXCEPT ![m].pc = "raised"]
    /\ UNCHANGED <<world, turnVars, memoryVars, serviceVars, langgraph_systems, created>>

\* every turn idle, the notifier as constructed
InitTurns ==
    /\ pc = [t \in Turns |-> "idle"]
    /\ req = [t \in Turns |-> NoRequest]
    /\ st = [t \in Turns |-> InitialState]
    /\ result = [t \in Turns |-> NoResult]
    /\ callbacks = EmptyMap
    /\ lastUpdates = EmptyMap
    /\ now = 0
    /\ emitted = [t \in Turns |-> <<>>]
    /\ lastCall = NoCall
    /\ stagelog = [t \in Turns |-> <<>>]
    /\ failed = [t \in Turns |-> {}]
    /\ lastStream = [s \in Sessions |-> -1]
    /\ external = [t \in Turns |-> <<>>]
    /\ langgraph_systems = EmptyMap
    /\ created = <<>>
    /\ msgs = [m \in Messages |-> NoMessage]
    /\ facts_col = EmptyMap
    /\ messages_col = <<>>
    /\ qdrant_store = {}
    /\ persists = [p \in Persisters |-> NoPersist]
    /\ clock = 0
    /\ fetched = [thread_id |-> None, messages |-> <<>>]
    /\ pending_actions = <<>>
    /\ calendar_events = <<>>
    /\ serial = 0
    /\ rejected = {}
    /\ lastOp = NoOp
    /\ responses_db = EmptyMap
    /\ freq_db = EmptyMap
    /\ cache_hits = 0
    /\ cache_misses = 0
    /\ cache_ops = 0
    /\ stored_queries = {}
    /\ kept_entries = EmptyMap
    /\ lastCache = NoCache
    /\ active_websockets = EmptyMap
    /\ sockets = [c \in Connections |-> NoSocket]
    /\ last_registered = EmptyMap
    /\ lastEvent = NoEvent

\* one turn, with every backend failure and every shape of stream
Init ==
    /\ InitTurns
    /\ world = [turns |-> {"t1"}, sessions |-> [t \in Turns |-> {"s1"}],
                modes |-> ChatModes, observers |-> ObserverKinds, faults |-> TRUE,
                answers |-> RoutingAnswers, messages |-> {"plain"}, chunks |-> ChunkKinds,
                memory |-> MemoryKinds, toolcalls |-> MaxToolCalls,
                hits |-> {OneHit},
                calendar |-> {}, cache |-> {}, sockets |-> {},
                persisters |-> {}, threads |-> {}, facts |-> {}]

\* two turns in flight, in one session or in two, with backends that answer
InitConcurrent ==
    /\ InitTurns
    /\ world = [turns |-> Turns,
                sessions |-> [t \in Turns |-> IF t = "t1" THEN {"s1"} ELSE Sessions],
                modes |-> {"general"}, observers |-> ObserverKinds \ {"raises"},
                faults |-> FALSE,
                answers |-> {"rag"}, messages |-> {"plain"}, chunks |-> {"w."},
                memory |-> {"real_context"}, toolcalls |-> MaxToolCalls,
                hits |-> {OneHit},
                calendar |-> {}, cache |-> {}, sockets |-> {},
                persisters |-> {}, threads |-> {}, facts |-> {}]

\* loop time passes; it is observed only while the throttle window of a key is open
Tick ==
    /\ now < MaxTime
    /\ \E k \in DOMAIN lastUpdates : now - lastUpdates[k] < ThrottleInterval
    /\ now' = now + 1
    /\ UNCHANGED <<world, managerVars, memoryVars, serviceVars, external, pc, req, st, result, callbacks, lastUpdates, emitted, lastCall, stagelog,
                   failed, lastStream>>

Next ==
    \/ Tick
    \/ \E t \in Turns : Start(t)
    \/ \E t \in Turns : MemoryFetchStart(t)
    \/ \E t \in Turns : MemoryFetchBody(t)
    \/ \E t \in Turns : SupervisorStart(t)
    \/ \E t \in Turns : SupervisorBody(t)
    \/ \E t \in Turns : ChatStart(t)
    \/ \E t \in Turns : ChatInvoke(t)
    \/ \E t \in Turns : ChatChunk(t)
    \/ \E t \in Turns : ChatStreamRaise(t)
    \/ \E t \in Turns : ChatStreamEnd(t)
    \/ \E t \in Turns : ChatComplete(t)
    \/ \E t \in Turns : RagStart(t)
    \/ \E t \in Turns : RagRetrieve(t)
    \/ \E t \in Turns : RagChunk(t)
    \/ \E t \in Turns : RagEnhanceRaise(t)
    \/ \E t \in Turns : RagEnhanceEnd(t)
    \/ \E t \in Turns : RagComplete(t)
    \/ \E t \in Turns : MemoryUpdateStart(t)
    \/ \E t \in Turns : MemoryUpdateBody(t)
    \/ \E t \in Turns : Finish(t)
    \/ \E t \in Turns : WorkflowRaise(t)
    \/ \E t \in Turns : Cancel(t)

Spec == Init /\ [][Next]_vars

\* one turn behind the input guardrail, with backends that answer
InitGuardrail ==
    /\ InitTurns
    /\ world = [turns |-> {"t1"}, sessions |-> [t \in Turns |-> {"s1"}],
                modes |-> {"general"}, observers |-> ObserverKinds \ {"raises"},
                faults |-> FALSE,
                answers |-> {"rag"}, messages |-> MessageKinds, chunks |-> {"w."},
                memory |-> {"real_context"}, toolcalls |-> MaxToolCalls,
                hits |-> {OneHit},
                calendar |-> {}, cache |-> {}, sockets |-> {},
                persisters |-> {}, threads |-> {}, facts |-> {}]

NextGuardrail ==
    \/ Tick
    \/ \E t \in Turns : StartGuarded(t)
    \/ \E t \in Turns : InputGuardrails(t)
    \/ \E t \in Turns : OutputGuardrailsRejected(t)
    \/ \E t \in Turns : MemoryFetchStart(t)
    \/ \E t \in Turns : MemoryFetchBody(t)
    \/ \E t \in Turns : SupervisorStart(t)
    \/ \E t \in Turns : SupervisorBody(t)
    \/ \E t \in Turns : ChatStart(t)
    \/ \E t \in Turns : ChatInvoke(t)
    \/ \E t \in Turns : ChatChunk(t)
    \/ \E t \in Turns : ChatStreamEnd(t)
    \/ \E t \in Turns : ChatComplete(t)
    \/ \E t \in Turns : MemoryUpdateStart(t)
    \/ \E t \in Turns : MemoryUpdateBody(t)
    \/ \E t \in Turns : Finish(t)
    \/ \E t \in Turns : WorkflowRaise(t)
    \/ \E t \in Turns : Cancel(t)

SpecGuardrail == InitGuardrail /\ [][NextGuardrail]_vars

\* one turn with every mode, message and answer of the routing call, and every
\* outcome of the memory fetch
InitRouter ==
    /\ InitTurns
    /\ world = [turns |-> {"t1"}, sessions |-> [t \in Turns |-> {"s1"}],
                modes |-> ChatModes, observers |-> {"none", "returns"},
                faults |-> FALSE,
                answers |-> RoutingAnswers, messages |-> MessageKinds, chunks |-> {"w."},
                memory |-> MemoryKinds, toolcalls |-> MaxToolCalls,
                hits |-> {OneHit},
                calendar |-> {}, cache |-> {}, sockets |-> {},
                persisters |-> {}, threads |-> {}, facts |-> {}]

NextRouter ==
    \/ Tick
    \/ \E t \in Turns : Start(t)
    \/ \E t \in Turns : MemoryFetchStart(t)
    \/ \E t \in Turns : MemoryFetchBody(t)
    \/ \E t \in Turns : SupervisorStart(t)
    \/ \E t \in Turns : SupervisorBody(t)
    \/ \E t \in Turns : ChatStart(t)
    \/ \E t \in Turns : ChatInvoke(t)
    \/ \E t \in Turns : ChatChunk(t)
    \/ \E t \in Turns : ChatStreamEnd(t)
    \/ \E t \in Turns : ChatComplete(t)
    \/ \E t \in Turns : RagStart(t)
    \/ \E t \in Turns : RagRetrieve(t)
    \/ \E t \in Turns : RagChunk(t)
    \/ \E t \in Turns : RagEnhanceEnd(t)
    \/ \E t \in Turns : RagComplete(t)
    \/ \E t \in Turns : MemoryUpdateStart(t)
    \/ \E t \in Turns : MemoryUpdateBody(t)
    \/ \E t \in Turns : Finish(t)
    \/ \E t \in Turns : WorkflowRaise(t)
    \/ \E t \in Turns : Cancel(t)

SpecRouter == InitRouter /\ [][NextRouter]_vars

\* the messages of the registry, no turn of the pipeline
InitRegistry ==
    /\ InitTurns
    /\ world = [turns |-> {}, sessions |-> [t \in Turns |-> {"s1"}],
                modes |-> {"general"}, observers |-> {"none"}, faults |-> FALSE,
                answers |-> {"rag"}, messages |-> {"plain"}, chunks |-> {"w."},
                memory |-> {"real_context"}, toolcalls |-> MaxToolCalls,
                hits |-> {OneHit},
                calendar |-> {}, cache |-> {}, sockets |-> {},
                persisters |-> {}, threads |-> {}, facts |-> {}]

NextRegistry ==
    \/ \E m \in Messages : ReceiveMessage(m)
    \/ \E m \in Messages : GetSystem(m)
    \/ \E m \in Messages : CallSystem(m)

SpecRegistry == InitRegistry /\ [][NextRegistry]_vars

\* one turn of the chatbot with rounds of up to MaxRoundCalls tool calls
InitTools ==
    /\ InitTurns
    /\ world = [turns |-> {"t1"}, sessions |-> [t \in Turns |-> {"s1"}],
                modes |-> {"general"}, observers |-> {"none", "returns"}, faults |-> TRUE,
                answers |-> {"rag"}, messages |-> {"plain"}, chunks |-> {"w."},
                memory |-> {"real_context"}, toolcalls |-> MaxRoundCalls,
                hits |-> {OneHit},
                calendar |-> {}, cache |-> {}, sockets |-> {},
                persisters |-> {}, threads |-> {}, facts |-> {}]

NextTools ==
    \/ Tick
    \/ \E t \in Turns : Start(t)
    \/ \E t \in Turns : MemoryFetchStart(t)
    \/ \E t \in Turns : MemoryFetchBody(t)
    \/ \E t \in Turns : SupervisorStart(t)
    \/ \E t \in Turns : SupervisorBody(t)
    \/ \E t \in Turns : ChatStart(t)
    \/ \E t \in Turns : ChatInvoke(t)
    \/ \E t \in Turns : ChatChunk(t)
    \/ \E t \in Turns : ChatStreamRaise(t)
    \/ \E t \in Turns : ChatStreamEnd(t)
    \/ \E t \in Turns : ChatComplete(t)
    \/ \E t \in Turns : MemoryUpdateStart(t)
    \/ \E t \in Turns : MemoryUpdateBody(t)
    \/ \E t \in Turns : Finish(t)
    \/ \E t \in Turns : WorkflowRaise(t)
    \/ \E t \in Turns : Cancel(t)

SpecTools == InitTools /\ [][NextTools]_vars

\* the updates of the memory of one user, no turn of the pipeline
InitMemory ==
    /\ InitTurns
    /\ world = [turns |-> {}, sessions |-> [t \in Turns |-> {"s1"}],
                modes |-> {"general"}, observers |-> {"none"}, faults |-> TRUE,
                answers |-> {"rag"}, messages |-> {"plain"}, chunks |-> {"w."},
                memory |-> {"real"}, toolcalls |-> MaxToolCalls,
                hits |-> {OneHit},
                calendar |-> {}, cache |-> {}, sockets |-> {},
                persisters |-> Persisters, threads |-> {"s1"}, facts |-> FactSets]

NextMemory ==
    \/ \E p \in Persisters : PersistBegin(p)
    \/ \E p \in Persisters : PersistLongTerm(p)
    \/ \E p \in Persisters : PersistReadFacts(p)
    \/ \E p \in Persisters : PersistWriteFacts(p)

SpecMemory == InitMemory /\ [][NextMemory]_vars

\* the turns of two threads persisted one after the other by a memory system that
\* answers, and the fetches of the recent messages
InitShortTerm ==
    /\ InitTurns
    /\ world = [turns |-> {}, sessions |-> [t \in Turns |-> {"s1"}],
                modes |-> {"general"}, observers |-> {"none"}, faults |-> FALSE,
                answers |-> {"rag"}, messages |-> {"plain"}, chunks |-> {"w."},
                memory |-> {"real"}, toolcalls |-> MaxToolCalls,
                hits |-> {OneHit},
                calendar |-> {}, cache |-> {}, sockets |-> {},
                persisters |-> {"p1"}, threads |-> MemThreads, facts |-> {EmptyMap}]

NextShortTerm ==
    \/ \E p \in Persisters : PersistBegin(p)
    \/ \E p \in Persisters : PersistLongTerm(p)
    \/ \E p \in Persisters : PersistReadFacts(p)
    \/ \E p \in Persisters : PersistWriteFacts(p)
    \/ FetchShortTerm

SpecShortTerm == InitShortTerm /\ [][NextShortTerm]_vars

\* one grounded turn with every retrieval, with and without a memory context
InitRag ==
    /\ InitTurns
    /\ world = [turns |-> {"t1"}, sessions |-> [t \in Turns |-> {"s1"}],
                modes |-> {"rag"}, observers |-> {"none", "returns"}, faults |-> FALSE,
                answers |-> {"rag"}, messages |-> {"plain"}, chunks |-> {"w."},
                memory |-> {"real", "real_context"}, toolcalls |-> MaxToolCalls,
                hits |-> Retrievals,
                calendar |-> {}, cache |-> {}, sockets |-> {},
                persisters |-> {}, threads |-> {}, facts |-> {}]

NextRag ==
    \/ Tick
    \/ \E t \in Turns : Start(t)
    \/ \E t \in Turns : MemoryFetchStart(t)
    \/ \E t \in Turns : MemoryFetchBody(t)
    \/ \E t \in Turns : SupervisorStart(t)
    \/ \E t \in Turns : SupervisorBody(t)
    \/ \E t \in Turns : RagStart(t)
    \/ \E t \in Turns : RagRetrieve(t)
    \/ \E t \in Turns : RagChunk(t)
    \/ \E t \in Turns : RagEnhanceEnd(t)
    \/ \E t \in Turns : RagComplete(t)
    \/ \E t \in Turns : MemoryUpdateStart(t)
    \/ \E t \in Turns : MemoryUpdateBody(t)
    \/ \E t \in Turns : Finish(t)

SpecRag == InitRag /\ [][NextRag]_vars

\* two turns of one session whose observers return or raise, with backends that answer
InitObservers ==
    /\ InitTurns
    /\ world = [turns |-> Turns, sessions |-> [t \in Turns |-> {"s1"}],
                modes |-> {"general"}, observers |-> {"returns", "raises"},
                faults |-> FALSE,
                answers |-> {"rag"}, messages |-> {"plain"}, chunks |-> {"w."},
                memory |-> {"real_context"}, toolcalls |-> MaxToolCalls,
                hits |-> {OneHit},
                calendar |-> {}, cache |-> {}, sockets |-> {},
                persisters |-> {}, threads |-> {}, facts |-> {}]

NextObservers ==
    \/ Tick
    \/ \E t \in Turns : Start(t)
    \/ \E t \in Turns : MemoryFetchStart(t)
    \/ \E t \in Turns : MemoryFetchBody(t)
    \/ \E t \in Turns : SupervisorStart(t)
    \/ \E t \in Turns : SupervisorBody(t)
    \/ \E t \in Turns : ChatStart(t)
    \/ \E t \in Turns : ChatInvoke(t)
    \/ \E t \in Turns : ChatChunk(t)
    \/ \E t \in Turns : ChatStreamEnd(t)
    \/ \E t \in Turns : ChatComplete(t)
    \/ \E t \in Turns : MemoryUpdateStart(t)
    \/ \E t \in Turns : MemoryUpdateBody(t)
    \/ \E t \in Turns : Finish(t)

SpecObservers == InitObservers /\ [][NextObservers]_vars

\* the calendar tool of one process, with the turns of two users and the approval endpoint
InitCalendar ==
    /\ InitTurns
    /\ world = [turns |-> {}, sessions |-> [t \in Turns |-> {"s1"}],
                modes |-> {"general"}, observers |-> {"none"}, faults |-> TRUE,
                answers |-> {"rag"}, messages |-> {"plain"}, chunks |-> {"w."},
                memory |-> {"real"}, toolcalls |-> MaxToolCalls,
                hits |-> {OneHit},
                calendar |-> CalendarUsers, cache |-> {}, sockets |-> {},
                persisters |-> {}, threads |-> {}, facts |-> {}]

NextCalendar ==
    \/ \E user \in CalendarUsers : CreateEventProposal(user)
    \/ \E user \in {"u1"} : UpdateEventProposal(user)
    \/ \E id \in ProposalIds, approved \in BOOLEAN : ApiApproval(id, approved)
    \/ \E user \in CalendarUsers, message \in ApprovalMessages : ChatApproval(user, message)

SpecCalendar == InitCalendar /\ [][NextCalendar]_vars

\* one query cache with its Redis, and the queries of a few users
InitCache ==
    /\ InitTurns
    /\ world = [turns |-> {}, sessions |-> [t \in Turns |-> {"s1"}],
                modes |-> {"general"}, observers |-> {"none"}, faults |-> TRUE,
                answers |-> {"rag"}, messages |-> {"plain"}, chunks |-> {"w."},
                memory |-> {"real"}, toolcalls |-> MaxToolCalls,
                hits |-> {OneHit},
                calendar |-> {}, cache |-> Asked, sockets |-> {},
                persisters |-> {}, threads |-> {}, facts |-> {}]

NextCache ==
    \/ \E query \in Queries, context \in Contexts, response \in Responses,
          metadata \in Metadatas : SetResponse(query, context, response, metadata)
    \/ \E query \in Queries, context \in Contexts : GetResponse(query, context)
    \/ \E query \in Queries, context \in Contexts : InvalidateQuery(query, context)
    \/ ClearAll
    \/ Expire

SpecCache == InitCache /\ [][NextCache]_vars

\* a few browser connections to the sessions of two users
InitSockets ==
    /\ InitTurns
    /\ world = [turns |-> {}, sessions |-> [t \in Turns |-> {"s1"}],
                modes |-> {"general"}, observers |-> {"none"}, faults |-> TRUE,
                answers |-> {"rag"}, messages |-> {"plain"}, chunks |-> {"w."},
                memory |-> {"real"}, toolcalls |-> MaxToolCalls,
                hits |-> {OneHit},
                calendar |-> {}, cache |-> {}, sockets |-> Connections,
                persisters |-> {}, threads |-> {}, facts |-> {}]

NextSockets ==
    \/ \E c \in Connections, session_id \in SocketSessions : Accept(c, session_id)
    \/ \E c \in Connections, token \in AuthTokens : Authenticate(c, token)
    \/ \E c \in Connections : WebsocketCallback(c)
    \/ \E c \in Connections : Disconnect(c)

SpecSockets == InitSockets /\ [][NextSockets]_vars

NextConcurrent ==
    \/ Tick
    \/ \E t \in Turns : Start(t)
    \/ \E t \in Turns : MemoryFetchStart(t)
    \/ \E t \in Turns : MemoryFetchBody(t)
    \/ \E t \in Turns : SupervisorStart(t)
    \/ \E t \in Turns : SupervisorBody(t)
    \/ \E t \in Turns : ChatStart(t)
    \/ \E t \in Turns : ChatInvoke(t)
    \/ \E t \in Turns : ChatChunk(t)
    \/ \E t \in Turns : ChatStreamEnd(t)
    \/ \E t \in Turns : ChatComplete(t)
    \/ \E t \in Turns : MemoryUpdateStart(t)
    \/ \E t \in Turns : MemoryUpdateBody(t)
    \/ \E t \in Turns : Finish(t)
    \/ \E t \in Turns : WorkflowRaise(t)
    \/ \E t \in Turns : Cancel(t)

SpecConcurrent == InitConcurrent /\ [][NextConcurrent]_vars

\* ------------------------------------------------------------------ claims
Ended(t) == pc[t] \in {"done", "cancelled"}
InFlight(t) == pc[t] \notin {"idle", "done", "cancelled", "blocked"}

\* the steps of turn t inside process_with_progress_tracking
TurnNext(t) ==
    \/ MemoryFetchStart(t) \/ MemoryFetchBody(t) \/ SupervisorStart(t) \/ SupervisorBody(t)
    \/ ChatStart(t) \/ ChatInvoke(t) \/ ChatChunk(t) \/ ChatStreamRaise(t) \/ ChatStreamEnd(t)
    \/ ChatComplete(t) \/ RagStart(t) \/ RagRetrieve(t) \/ RagChunk(t) \/ RagEnhanceRaise(t)
    \/ RagEnhanceEnd(t) \/ RagComplete(t) \/ MemoryUpdateStart(t) \/ MemoryUpdateBody(t)
    \/ Finish(t) \/ WorkflowRaise(t)

ResultFields == {"outcome", "response", "agent_used", "metadata", "tools_used",
                 "wikipedia_results", "memory_context_summary"}

IsPrefix(a, b) == Len(a) <= Len(b) /\ \A i \in 1..Len(a) : a[i] = b[i]

\* C1: whatever the memory fetch, the routing call, the retrieval, the generation,
\* the tools and the memory update of a turn do, process_with_progress_tracking never
\* raises to its caller: a turn that left it without being cancelled was handed a
\* result with a response, and a turn still inside it that does not wait for an
\* observer can take a step.
C1_ReturnsResult ==
    \A t \in Turns :
        /\ result[t].outcome \in {None, "returned", "cancelled"}
        /\ pc[t] = "done" =>
              /\ result[t].outcome = "returned"
              /\ DOMAIN result[t] = ResultFields
              /\ result[t].response # <<>>
        /\ pc[t] = "cancelled" <=> result[t].outcome = "cancelled"
        /\ InFlight(t) => ENABLED TurnNext(t)

\* a turn returned a result although its routing call, its strategy and its memory
\* update all failed
C1_Witness ==
    \E t \in Turns :
        /\ pc[t] = "done"
        /\ {"supervisor", "chatbot", "memory_update"} \subseteq failed[t]
        /\ result[t].response = ChatApology

Pipeline(agent) ==
    <<<<"memory_fetch", "enter">>, <<"memory_fetch", "exit">>,
      <<"supervisor", "enter">>, <<"supervisor", "exit">>,
      <<agent, "enter">>, <<agent, "exit">>,
      <<"memory_update", "enter">>, <<"memory_update", "exit">>>>

\* the place of a progress event in the order of the pipeline
Rank(e) ==
    CASE e.step = "memory" /\ e.status = "active" -> 1
      [] e.step = "memory" -> 2
      [] e.step = "supervisor" /\ e.status = "active" -> 3
      [] e.step = "supervisor" -> 4
      [] e.step = "agent" /\ e.status = "active" -> 5
      [] e.step = "streaming" -> 6
      [] e.step = "agent" -> 7
      [] e.step = "update" /\ e.status = "active" -> 8
      [] e.step = "update" -> 9
      [] OTHER -> 10

\* C2: the nodes of a turn run in the order memory_fetch, supervisor, the one agent
\* the supervisor selected, memory_update, each entered after the previous one was
\* left; the progress events of the turn are emitted (hence delivered) in that order,
\* one 'active' event per node entered, and streaming events come only after the
\* 'active' event of the agent and before its 'completed' or 'error' event.
C2_StageOrder ==
    \A t \in Turns :
        /\ \E agent \in {"rag_agent", "chatbot"} :
              /\ IsPrefix(stagelog[t], Pipeline(agent))
              /\ Len(stagelog[t]) >= 5 => st[t].selected_agent = <<agent>>
        /\ \A j \in 2..Len(emitted[t]) :
              /\ Rank(emitted[t][j - 1]) <= Rank(emitted[t][j])
              /\ Rank(emitted[t][j - 1]) = Rank(emitted[t][j])
                    => IsStreaming(emitted[t][j].step, emitted[t][j].status)
        /\ \A j \in 1..Len(emitted[t]) :
              emitted[t][j].step = "streaming" =>
                  \E i \in 1..(j - 1) : emitted[t][i].step = "agent" /\ emitted[t][i].status = "active"
        /\ Cardinality({i \in 1..Len(emitted[t]) : emitted[t][i].status = "active"})
              = Cardinality({i \in 1..Len(stagelog[t]) : stagelog[t][i][2] = "enter"})

\* a turn routed to the RAG agent went through the four nodes and streamed on its way
C2_Witness ==
    \E t \in Turns :
        /\ pc[t] = "done"
        /\ stagelog[t] = Pipeline("rag_agent")
        /\ \E i \in 1..Len(emitted[t]) : emitted[t][i].step = "streaming" /\ emitted[t][i].delivered
        /\ emitted[t][Len(emitted[t])].step = "update"

StageFailures == {"memory_fetch", "supervisor", "rag_agent", "chatbot", "memory_update", "workflow"}

\* C3 as stated: a turn in which a stage failed ends with the fixed fallback answer
C3_AnyFailureFallsBack ==
    \A t \in Turns :
        (pc[t] = "done" /\ failed[t] \cap StageFailures # {}) => result[t].response = FallbackAnswer

\* C3, amended: when the failure of a stage reaches process_with_progress_tracking
\* (ainvoke raises), an 'error' event with the error text is the last event emitted,
\* no node is entered or left afterwards, and the result the turn returns is the
\* fixed fallback answer with the error text in its metadata.
C3_EscapedFailureFallsBack ==
    /\ [](\A t \in Turns : "workflow" \in failed[t] =>
            /\ emitted[t] # <<>>
            /\ emitted[t][Len(emitted[t])].step = "error"
            /\ emitted[t][Len(emitted[t])].status = "error"
            /\ emitted[t][Len(emitted[t])].details = <<"Workflow failed", "workflow_error">>
            /\ pc[t] = "done" =>
                  /\ result[t].response = FallbackAnswer
                  /\ result[t].agent_used = <<"error">>
                  /\ result[t].metadata = [error |-> <<"workflow_error">>])
    /\ [][\A t \in Turns : "workflow" \in failed[t] =>
            stagelog'[t] = stagelog[t] /\ emitted'[t] = emitted[t]]_vars

\* ainvoke raised after the supervisor had run, and the turn returned the fallback
C3_Witness ==
    \E t \in Turns :
        /\ pc[t] = "done"
        /\ "workflow" \in failed[t]
        /\ Len(stagelog[t]) = 4
        /\ result[t].response = FallbackAnswer
        /\ emitted[t][Len(emitted[t])].delivered

\* C4: when the memory update of a turn fails, the answer the strategy left is not
\* touched from the end of the strategy on and is the response of the result, which
\* is not the error result; the failure shows only as the metadata entry
\* memory_update_error, in place of memory_updated.
C4_UpdateFailureKeepsAnswer ==
    /\ [](\A t \in Turns : (pc[t] = "done" /\ "memory_update" \in failed[t]) =>
            /\ result[t].response = st[t].agent_response
            /\ result[t].response # FallbackAnswer
            /\ result[t].agent_used = st[t].selected_agent
            /\ result[t].agent_used # <<"error">>
            /\ result[t].tools_used = st[t].tools_used
            /\ "memory_update_error" \in DOMAIN result[t].metadata
            /\ "memory_updated" \notin DOMAIN result[t].metadata
            /\ ("error" \in DOMAIN result[t].metadata) <=> ("chatbot" \in failed[t]))
    /\ [][\A t \in Turns : pc[t] \in {"memory_update", "memory_update_body", "END"} =>
            /\ st'[t].agent_response = st[t].agent_response
            /\ st'[t].selected_agent = st[t].selected_agent
            /\ st'[t].tools_used = st[t].tools_used
            /\ \A k \in DOMAIN st[t].metadata :
                  k \in DOMAIN st'[t].metadata /\ st'[t].metadata[k] = st[t].metadata[k]]_vars

\* a streamed answer was returned although the memory update failed
C4_Witness ==
    \E t \in Turns :
        /\ pc[t] = "done"
        /\ "memory_update" \in failed[t]
        /\ failed[t] \cap {"chatbot", "rag_agent"} = {}
        /\ Len(result[t].response) = MaxChunks
        /\ result[t].metadata.memory_update_error = <<"update_error">>

InList(x, seq) == \E i \in 1..Len(seq) : seq[i] = x

\* turn t called notify_progress in this step
Notified(t) == emitted'[t] # emitted[t]

\* C5: on every way out of process_with_progress_tracking (ainvoke returned, ainvoke
\* raised, the task was cancelled) the step that ends the turn leaves no observer
\* registered for the session of the turn; an ended turn's observer is in no list of
\* the registry and is never called again; and a later notify_progress for that
\* session, nobody having registered since, calls no observer and returns to its caller.
C5_UnregisteredOnEveryExit ==
    /\ [](\A t \in Turns : Ended(t) => \A s \in DOMAIN callbacks : ~InList(t, callbacks[s]))
    /\ [][\A t \in Turns :
            /\ (~Ended(t) /\ Ended(t)') => req[t].session_id \notin DOMAIN callbacks'
            /\ \A u \in Turns : (Ended(t) /\ Notified(u)) =>
                  /\ ~InList(t, lastCall'.delivered)
                  /\ (req[u].session_id = req[t].session_id /\ ~Registered(req[t].session_id)) =>
                        /\ lastCall'.delivered = <<>>
                        /\ pc'[u] # "blocked"]_vars

\* a turn with an observer was cancelled, and another turn of the same session, whose
\* own observer went with it, called notify_progress afterwards
C5_Witness ==
    \E t, u \in Turns :
        /\ t # u
        /\ pc[t] = "cancelled"
        /\ req[t].observer # "none"
        /\ req[u].observer = "returns"
        /\ req[u].session_id = req[t].session_id
        /\ lastCall.turn = u
        /\ lastCall.registered = <<>>
        /\ pc[u] = "done"
        /\ stagelog[u] = Pipeline("chatbot")

\* C6: a streaming/partial call is delivered only if no streaming/partial call of the
\* same session was delivered less than the throttle interval before it, however many
\* calls are made and whichever turn makes them; and it is suppressed, the session
\* having observers, only if one of the same session was: deliveries to other
\* sessions play no part.
C6_StreamingThrottlePerSession ==
    [][\A t \in Turns :
        (Notified(t) /\ IsStreaming(lastCall'.step, lastCall'.status)) =>
            /\ lastCall'.delivered # <<>> =>
                  \/ lastStream[req[t].session_id] = -1
                  \/ now - lastStream[req[t].session_id] >= ThrottleInterval
            /\ (lastCall'.delivered = <<>> /\ Registered(req[t].session_id)) =>
                  /\ lastStream[req[t].session_id] # -1
                  /\ now - lastStream[req[t].session_id] < ThrottleInterval]_vars

\* a turn had one partial delivered and the next one suppressed, and within the same
\* throttle interval a partial of a turn of another session was delivered
C6_Witness ==
    \E t, u \in Turns :
        /\ req[t].session_id # req[u].session_id
        /\ req[t].observer = "returns"
        /\ \E i, j \in 1..Len(emitted[t]) :
              /\ i < j
              /\ IsStreaming(emitted[t][i].step, emitted[t][i].status) /\ emitted[t][i].delivered
              /\ IsStreaming(emitted[t][j].step, emitted[t][j].status) /\ ~emitted[t][j].delivered
        /\ lastStream[req[t].session_id] # -1
        /\ now - lastStream[req[t].session_id] < ThrottleInterval
        /\ lastCall.turn = u
        /\ IsStreaming(lastCall.step, lastCall.status)
        /\ lastCall.delivered = <<u>>

\* the streaming/partial calls of a turn
Partials(t) == {i \in 1..Len(emitted[t]) : IsStreaming(emitted[t][i].step, emitted[t][i].status)}

\* C7: in a turn that returned without a failure, whose observer was registered
\* throughout and whose strategy made at least one streaming/partial call, the content
\* of the last of these calls (the complete streamed answer) was delivered exactly once.
C7_LastPartialDelivered ==
    \A t \in Turns :
        (/\ pc[t] = "done"
         /\ failed[t] = {}
         /\ req[t].observer \in {"returns", "raises"}
         /\ Partials(t) # {}) =>
            LET last == CHOOSE i \in Partials(t) : \A j \in Partials(t) : j <= i
            IN  Cardinality({i \in Partials(t) :
                    /\ emitted[t][i].delivered
                    /\ emitted[t][i].details = emitted[t][last].details}) = 1

\* C8: a call of notify_progress that is not streaming/partial calls every observer
\* registered for the session at the time of the call, once each and in the order of
\* registration, whatever the throttle state.
C8_UnthrottledToEveryObserver ==
    (lastCall.turn # None /\ ~IsStreaming(lastCall.step, lastCall.status)) =>
        lastCall.delivered = lastCall.registered

\* two turns made the same notify_progress calls
SameCalls(t, u) ==
    /\ Len(emitted[t]) = Len(emitted[u])
    /\ \A i \in 1..Len(emitted[t]) :
          /\ emitted[t][i].step = emitted[u][i].step
          /\ emitted[t][i].status = emitted[u][i].status
          /\ emitted[t][i].details = emitted[u][i].details

\* C9: a call of notify_progress for a session without observers calls no observer,
\* returns to its caller, and leaves the registry and the throttle state as they
\* were; and a turn without an observer whose backends answered as those of another
\* turn returns the same result as that turn, whatever its observer.
C9_NoObserverIsNoOp ==
    /\ [](\A t, u \in Turns :
            (pc[t] = "done" /\ pc[u] = "done" /\ req[t].observer = "none" /\ SameCalls(t, u))
                => result[t] = result[u])
    /\ [][\A t \in Turns : (Notified(t) /\ ~Registered(req[t].session_id)) =>
            /\ lastCall'.delivered = <<>>
            /\ emitted'[t][Len(emitted'[t])].delivered = FALSE
            /\ pc'[t] # "blocked"
            /\ callbacks' = callbacks
            /\ lastUpdates' = lastUpdates]_vars

\* a turn without an observer, in a session of its own, streamed and returned what a
\* turn with an observer returned, none of its calls having been delivered
C9_Witness ==
    \E t, u \in Turns :
        /\ pc[t] = "done" /\ pc[u] = "done"
        /\ req[t].observer = "none" /\ req[u].observer = "returns"
        /\ req[t].session_id # req[u].session_id
        /\ SameCalls(t, u)
        /\ Partials(t) # {}
        /\ \A i \in 1..Len(emitted[t]) : ~emitted[t][i].delivered
        /\ \E i \in Partials(u) : emitted[u][i].delivered
        /\ result[t] = result[u]
        /\ LastUpdateKey(req[t].session_id) \notin DOMAIN lastUpdates

\* C10: a turn that has started and has not ended can take a step, whatever its
\* observers do: none of them keeps it from going on.
C10_NoObserverBlocksTurn ==
    \A t \in Turns : pc[t] \notin {"idle", "done", "cancelled"} => ENABLED TurnNext(t)

\* the stages of the pipeline proper
PipelineStages == {"memory_fetch", "supervisor", "rag_agent", "chatbot", "memory_update"}

\* C11: should_continue_after_validation answers 'end' exactly for a state in which
\* validation failed; and in a turn whose message the input guardrail rejected no
\* stage of the pipeline is entered, no progress event of a stage is emitted, no
\* external capability is called, and the result the turn returns has the status
\* 'rejected' and the rejection message; a turn whose message passed does not.
C11_RejectedShortCircuits ==
    /\ \A b \in BOOLEAN :
          ShouldContinueAfterValidation([validation_failed |-> b]) = IF b THEN "end" ELSE "continue"
    /\ ShouldContinueAfterValidation(EmptyMap) = "continue"
    /\ \A t \in Turns :
          /\ "validation" \in failed[t] =>
                /\ stagelog[t] = <<>>
                /\ emitted[t] = <<>>
                /\ external[t] = <<>>
                /\ pc[t] \in {"output_guardrails", "END", "done", "cancelled"}
                /\ pc[t] = "done" =>
                      /\ result[t].metadata = [status |-> <<"rejected">>]
                      /\ result[t].response = RejectionAnswer
                      /\ result[t].agent_used = <<>>
          /\ (pc[t] = "done" /\ "validation" \notin failed[t]) =>
                /\ "status" \notin DOMAIN result[t].metadata
                /\ "workflow" \notin failed[t] =>
                      \E i \in 1..Len(stagelog[t]) : stagelog[t][i][1] \in PipelineStages

\* the message of a turn was rejected and the turn returned
C11_Witness ==
    \E t \in Turns :
        /\ pc[t] = "done"
        /\ "validation" \in failed[t]
        /\ req[t].observer = "returns"
        /\ result[t].response = RejectionAnswer

\* the supervisor of turn t has returned
Routed(t) == st[t].selected_agent # <<>>

\* C12: with the mode 'rag' the supervisor selects rag_agent, whatever the message,
\* whatever the memory fetch left and whatever a routing call would answer (none is
\* made); the RAG agent is the strategy that runs and the one the result reports.
C12_RagModeSelectsRag ==
    /\ \A answer \in RoutingAnswers : SupervisorDecision("rag", answer) = "rag_agent"
    /\ \A t \in Turns : req[t].chat_mode = "rag" =>
          /\ external[t] = <<>>
          /\ Routed(t) => st[t].selected_agent = <<"rag_agent">>
          /\ Len(stagelog[t]) >= 5 => stagelog[t][5] = <<"rag_agent", "enter">>
          /\ (pc[t] = "done" /\ "workflow" \notin failed[t]) =>
                result[t].agent_used = <<"rag_agent">>

\* a turn in the mode 'rag' whose message has no keyword and whose memory fetch failed
\* was answered by the RAG agent
C12_Witness ==
    \E t \in Turns :
        /\ pc[t] = "done"
        /\ req[t].chat_mode = "rag"
        /\ req[t].message = "plain"
        /\ "memory_fetch" \in failed[t]
        /\ result[t].agent_used = <<"rag_agent">>

\* C13 as stated: when the mode is not 'rag', the supervisor selects rag_agent if the
\* message contains a keyword and chatbot otherwise
C13_KeywordRouting ==
    \A t \in Turns : (req[t].chat_mode # "rag" /\ Routed(t)) =>
        (st[t].selected_agent = <<"rag_agent">> <=> req[t].message = "keyword")

\* C13, amended: with the mode 'general' the supervisor selects chatbot whatever the
\* message; with any other mode than 'rag' and 'general' it selects what its routing
\* call answers: rag_agent when the answer contains 'rag', chatbot when it does not
\* or when the call raises.
C13_ModeThenRoutingCall ==
    /\ \A answer \in RoutingAnswers :
          /\ SupervisorDecision("general", answer) = "chatbot"
          /\ \A mode \in ChatModes \ {"rag", "general"} :
                SupervisorDecision(mode, answer) = IF answer = "rag" THEN "rag_agent" ELSE "chatbot"
    /\ \A t \in Turns : Routed(t) =>
          /\ req[t].chat_mode = "general" => st[t].selected_agent = <<"chatbot">>
          /\ req[t].chat_mode \notin {"rag", "general"} =>
                /\ external[t] # <<>>
                /\ external[t][1][1] = "routing"
                /\ st[t].selected_agent =
                      IF external[t][1][2] = "rag" THEN <<"rag_agent">> ELSE <<"chatbot">>
                /\ external[t][1][2] = "raise" <=> "supervisor" \in failed[t]

\* a message with a keyword, in a mode that is neither 'rag' nor 'general', went to
\* the chatbot because the routing call raised
C13_Witness ==
    \E t \in Turns :
        /\ pc[t] = "done"
        /\ req[t].chat_mode = "auto"
        /\ req[t].message = "keyword"
        /\ external[t] = <<<<"routing", "raise">>>>
        /\ result[t].agent_used = <<"chatbot">>

\* C14 as stated: the selection and the justification of a routing run are functions
\* of the mode and the message, and no routing run makes an external call
C14_RoutingIsPure ==
    \A t \in Turns : Routed(t) =>
        /\ external[t] = <<>>
        /\ \A answer \in RoutingAnswers :
              SupervisorDecision(req[t].chat_mode, answer) = st[t].selected_agent[1]
        /\ "decision_reason" \in DOMAIN st[t]

\* C14, amended: with the mode 'rag' or 'general' a routing run makes no external
\* call and its selection and its justification string are functions of the mode
\* alone; with any other mode it makes exactly one external call, the routing call,
\* and leaves no justification string.
C14_ExplicitModesArePure ==
    \A t \in Turns : Routed(t) =>
        IF req[t].chat_mode \in {"rag", "general"}
        THEN /\ external[t] = <<>>
             /\ \A answer \in RoutingAnswers :
                   SupervisorDecision(req[t].chat_mode, answer) = st[t].selected_agent[1]
             /\ st[t].supervisor_decision = st[t].selected_agent
             /\ st[t].decision_reason =
                   IF req[t].chat_mode = "rag" THEN <<"User selected 'My Resources' mode">>
                   ELSE <<"User selected 'General' mode">>
        ELSE /\ Len(external[t]) = 1
             /\ external[t][1][1] = "routing"
             /\ "decision_reason" \notin DOMAIN st[t]

\* a turn in the mode 'general' whose message has a keyword was routed to the chatbot
\* without a routing call
C14_Witness ==
    \E t \in Turns :
        /\ pc[t] = "done"
        /\ req[t].chat_mode = "general"
        /\ req[t].message = "keyword"
        /\ external[t] = <<>>
        /\ Routed(t)
        /\ st[t].decision_reason = <<"User selected 'General' mode">>
        /\ result[t].agent_used = <<"chatbot">>

\* the messages of process_message that hold a system
Holding == {m \in Messages : msgs[m].system # 0}

\* C15: get_or_create_system returns the same system to every call with the same
\* (user_id, session_id) and different systems to calls of one user with different
\* sessions, and it creates a system only in a call whose key is not registered;
\* a registered system is never replaced.
C15_SameKeySameSystem ==
    /\ [](\A m1, m2 \in Holding :
            /\ (msgs[m1].user_id = msgs[m2].user_id /\ msgs[m1].session_id = msgs[m2].session_id)
                  => msgs[m1].system = msgs[m2].system
            /\ msgs[m1].session_id # msgs[m2].session_id
                  => msgs[m1].system # msgs[m2].system)
    /\ [][/\ \A k \in DOMAIN langgraph_systems :
               k \in DOMAIN langgraph_systems' /\ langgraph_systems'[k] = langgraph_systems[k]
          /\ created' # created =>
               \E m \in Messages :
                   LET key == msgs[m].user_id \o <<":">> \o msgs[m].session_id
                   IN /\ msgs[m].pc = "db"
                      /\ key \notin DOMAIN langgraph_systems
                      /\ created' = Append(created, key)
                      /\ msgs'[m].system = Len(created')]_vars

\* after a message whose processing has ended, a message with the same ids holds the
\* same system and a message of the same user in another session holds another one
C15_Witness ==
    \E m1, m2, m3 \in Messages :
        /\ msgs[m1].pc = "raised"
        /\ msgs[m2].pc = "got"
        /\ msgs[m3].pc = "got"
        /\ msgs[m2].user_id = msgs[m1].user_id
        /\ msgs[m2].session_id = msgs[m1].session_id
        /\ msgs[m2].system = msgs[m1].system
        /\ msgs[m3].user_id = msgs[m1].user_id
        /\ msgs[m3].session_id # msgs[m1].session_id
        /\ msgs[m3].system # msgs[m1].system
        /\ Len(created) = 2

\* C16: however the messages of one key interleave, at most one system is ever
\* created for that key, and every message of that key that is past
\* get_or_create_system holds the system registered for the key.
C16_OneSystemPerKey ==
    /\ \A i, j \in 1..Len(created) : created[i] = created[j] => i = j
    /\ \A m \in Messages : msgs[m].pc \in {"got", "raised"} =>
          LET key == msgs[m].user_id \o <<":">> \o msgs[m].session_id
          IN /\ key \in DOMAIN langgraph_systems
             /\ msgs[m].system = langgraph_systems[key]
             /\ msgs[m].system \in 1..Len(created)
             /\ created[msgs[m].system] = key

\* three messages of one key were in process_message at the same time, and all three
\* made their call on the one system that was created
C16_Witness ==
    /\ Len(created) = 1
    /\ \A m \in Messages : msgs[m].pc = "got" /\ msgs[m].system = 1
    /\ \A m1, m2 \in Messages :
          msgs[m1].user_id = msgs[m2].user_id /\ msgs[m1].session_id = msgs[m2].session_id

\* C17: the chatbot runs at most one round of tool calls in a turn: the round leaves
\* one tool result for every requested call, in the order of the calls; it is
\* followed by the generation of the answer, which cannot add a call or a result,
\* and the node never comes back to the round.
C17_OneToolRound ==
    /\ [](\A t \in Turns :
            /\ Len(st[t].tool_results) = Len(st[t].tools_used)
            /\ Len(st[t].tools_used) <= world.toolcalls
            /\ \A i \in 1..Len(st[t].tool_results) :
                  st[t].tool_results[i].tool = st[t].tools_used[i])
    /\ [][\A t \in Turns :
            /\ st'[t].tool_results # st[t].tool_results =>
                  \/ pc[t] = "chat_invoke" /\ st[t].tool_results = <<>> /\ pc'[t] = "chat_stream"
                  \/ st'[t].tool_results = <<>>
            /\ (pc'[t] = "chat_invoke" /\ pc[t] # "chat_invoke") => pc[t] = "chatbot"
            /\ pc[t] \in {"chat_stream", "chat_complete"} =>
                  pc'[t] \in {"chat_stream", "chat_complete", "memory_update", "blocked",
                              "cancelled"}]_vars

\* a turn whose round had two calls has ended with two tool results and an answer
\* that was generated after the round
C17_Witness ==
    \E t \in Turns :
        /\ pc[t] = "done"
        /\ Len(st[t].tool_results) = 2
        /\ result[t].tools_used = <<"calculate", "calculate">>
        /\ result[t].response = <<"w.">>

\* the text of a tool result tells a failure of the call
ErrorText(r) == r.result[1] \in {"Error using", "Unknown tool"}

\* C18: a tool call that fails or names an unknown tool leaves an error text as its
\* result, the other calls of the round are executed all the same, the generation
\* of the answer follows, and unless that generation or the pipeline fails the turn
\* ends with the answer of the chatbot, not with an apology or the fallback.
C18_ToolFailureIsFedBack ==
    /\ [](\A t \in Turns :
            /\ \A i \in 1..Len(st[t].tool_results) :
                  /\ st[t].tool_results[i].result[2] = st[t].tool_results[i].tool
                  /\ st[t].tool_results[i].tool = "no_such_tool" =>
                        st[t].tool_results[i].result[1] = "Unknown tool"
            /\ (\E i \in 1..Len(st[t].tool_results) : ErrorText(st[t].tool_results[i]))
                  => "tool" \in failed[t]
            /\ (pc[t] = "done" /\ "tool" \in failed[t]
                   /\ failed[t] \cap {"chatbot", "workflow"} = {}) =>
                  /\ result[t].response \notin {<<>>, ChatApology, FallbackAnswer}
                  /\ result[t].agent_used = <<"chatbot">>
                  /\ "error" \notin DOMAIN result[t].metadata
                  /\ \E i \in 1..Len(st[t].tool_results) : ErrorText(st[t].tool_results[i]))
    /\ [][\A t \in Turns :
            ("tool" \in failed'[t] /\ "tool" \notin failed[t]) =>
                /\ pc[t] = "chat_invoke"
                /\ pc'[t] = "chat_stream"
                /\ \E i \in 1..Len(st'[t].tool_results) : ErrorText(st'[t].tool_results[i])
                /\ Len(st'[t].tool_results) = Len(st'[t].tools_used)]_vars

\* the first call of a round raised, the second one was executed, and the turn has
\* ended with the answer that was generated from both results
C18_Witness ==
    \E t \in Turns :
        /\ pc[t] = "done"
        /\ failed[t] = {"tool"}
        /\ st[t].tool_results = <<[tool |-> "calculate", result |-> <<"Error using", "calculate">>],
                                  [tool |-> "calculate", result |-> <<"result of", "calculate">>]>>
        /\ result[t].response = <<"w.">>

\* the positions of a turn inside a strategy node
StrategyPcs == {"chat_invoke", "chat_stream", "chat_complete",
                "rag_retrieve", "rag_enhance", "rag_complete"}

\* the positions of a turn after its strategy node has returned
AfterStrategy == {"memory_update", "memory_update_body", "END", "done"}

Context(t) == MemoryContext(st[t].memory_context)

\* the stages that turn t has entered, in order
Entered(t) == SelectSeq(stagelog[t], LAMBDA e : e[2] = "enter")

\* C21: when the memory system raises, or the fetch node itself fails, the node
\* returns: the nodes after it read no recent message, no long-term entry and no
\* user fact, and the turn goes on through the supervisor, an agent and the memory
\* update to an ordinary result.
C21_FetchFailureGivesEmptyContext ==
    \A t \in Turns : "memory_fetch" \in failed[t] =>
        /\ ContextGet(Context(t), "short_term", <<>>) = <<>>
        /\ ContextGet(Context(t), "long_term", <<>>) = <<>>
        /\ ContextGet(Context(t), "user_facts", EmptyMap) = EmptyMap
        /\ ~st[t].has_context
        /\ st[t].memory_context = "mock" =>
              {"short_term", "long_term", "user_facts"} \subseteq DOMAIN Context(t)
        /\ pc[t] \notin {"memory_fetch", "memory_fetch_body"}
        /\ (pc[t] = "done" /\ "workflow" \notin failed[t]) =>
              /\ result[t].outcome = "returned"
              /\ result[t].agent_used \in {<<"chatbot">>, <<"rag_agent">>}
              /\ result[t].response \notin {<<>>, FallbackAnswer}
              /\ Len(Entered(t)) = 4
              /\ Entered(t)[1][1] = "memory_fetch"
              /\ Entered(t)[2][1] = "supervisor"
              /\ Entered(t)[3][1] = result[t].agent_used[1]
              /\ Entered(t)[4][1] = "memory_update"

\* the memory system raised in a turn that went on to the RAG agent and has ended
\* with its answer
C21_Witness ==
    \E t \in Turns :
        /\ pc[t] = "done"
        /\ failed[t] = {"memory_fetch"}
        /\ st[t].memory_context = "mock"
        /\ result[t].agent_used = <<"rag_agent">>
        /\ result[t].response = <<"rag answer">>

\* the long-term document of the update that persister p is in
LongTermDoc(p) == [thread_id |-> persists[p].thread_id, timestamp |-> persists[p].timestamp]

\* C22: when extract_facts fails, the update has written its long-term document, it
\* does not end there, and unless the write of the facts fails the node returns the
\* answer and the metadata of an update in which the extraction succeeded.
C22_ExtractionFailureKeepsLongTerm ==
    /\ \A p \in Persisters : persists[p].failed_at = "extract" =>
          /\ persists[p].pc = "ok"
          /\ persists[p].new = EmptyMap
          /\ LongTermDoc(p) \in qdrant_store
          /\ persists[p].state = MemoryUpdateReturn(PersistState, FALSE)
          /\ persists[p].state.agent_response = PersistState.agent_response
          /\ persists[p].state.metadata = [memory_updated |-> <<"True">>]
    /\ \A p \in Persisters : persists[p].pc \in {"read", "ok"} => LongTermDoc(p) \in qdrant_store

\* an update whose message holds facts has returned although their extraction failed
C22_Witness ==
    \E p \in Persisters :
        /\ persists[p].pc = "ok"
        /\ persists[p].failed_at = "extract"
        /\ persists[p].facts # EmptyMap
        /\ LongTermDoc(p) \in qdrant_store

\* C23: the long-term write and the update of the facts do not depend on each
\* other: an update whose long-term write failed has merged the facts of its
\* message, an update whose facts could not be read or written has written its
\* long-term document, and in both the node returns the answer.
C23_SubOperationsIndependent ==
    \A p \in Persisters : persists[p].pc = "raised" =>
        /\ persists[p].state.agent_response = PersistState.agent_response
        /\ persists[p].failed_at \in {"read_facts", "write_facts"} =>
              LongTermDoc(p) \in qdrant_store
        /\ persists[p].failed_at = "long_term" =>
              \A k \in DOMAIN persists[p].facts : k \in DOMAIN facts_col

\* C24: an update that read the fact map M and extracted the facts F stores M
\* overridden by F: the keys of both, every key of F with its new value and every
\* other key of M with the value it had.
C24_MergeOverridesPerKey ==
    [][\A p \in Persisters :
        (persists[p].pc = "read" /\ persists'[p].pc = "ok") =>
            LET M == persists[p].existing
                F == persists'[p].new
            IN  /\ F = IF persists'[p].failed_at = "extract" THEN EmptyMap
                        ELSE persists[p].facts
                /\ DOMAIN M \cup DOMAIN F # {} =>
                      /\ DOMAIN facts_col' = DOMAIN M \cup DOMAIN F
                      /\ \A k \in DOMAIN F : facts_col'[k] = F[k]
                      /\ \A k \in DOMAIN M \ DOMAIN F : facts_col'[k] = M[k]]_vars

\* an update has replaced the name it read and kept the city it read
C24_Witness ==
    \E p \in Persisters :
        /\ persists[p].pc = "ok"
        /\ persists[p].existing = [name |-> "b", city |-> "c"]
        /\ persists[p].new = [name |-> "a"]
        /\ facts_col = [name |-> "a", city |-> "c"]

\* C25: an update whose extraction yields no fact, or fails, leaves the stored fact
\* map as it is, whatever another update of the user has written since this update
\* read the map.
C25_NoFactsNoMutation ==
    [][\A p \in Persisters :
        (/\ persists[p].pc = "read"
         /\ persists'[p].pc \in {"ok", "raised"}
         /\ persists'[p].new = EmptyMap) => facts_col' = facts_col]_vars

\* C26: fetch_short_term returns at most 2 * ShortTermWindow messages, all of the
\* thread asked for, oldest first, and the user message of a turn before the
\* assistant message of that turn.
C26_ShortTermChronological ==
    LET m == fetched.messages
    IN  /\ Len(m) <= 2 * ShortTermWindow
        /\ \A i \in 1..Len(m) : m[i].thread_id = fetched.thread_id
        /\ \A i, j \in 1..Len(m) : i < j =>
              /\ m[i].timestamp <= m[j].timestamp
              /\ m[i].timestamp = m[j].timestamp =>
                    m[i].role = "user" /\ m[j].role = "assistant"

\* ---------------------------------------------------------------------- C27
ErrorMarkers == {"error", "rag_error", "memory_update_error"}
HasErrorMarker(state) ==
    \/ DOMAIN state.metadata \cap ErrorMarkers # {}
    \/ state.memory_context = "error"
ErrorContent == {<<>>, ChatApology, RagApology, FallbackAnswer}

\* C27 as stated: once any stage of a turn has failed, the turn state carries an error
\* marker and its answer field holds no non-error content from then on.
C27_AnyFailureMarksState ==
    \A t \in Turns :
        (failed[t] \cap PipelineStages # {} /\ pc[t] # "blocked")
            => /\ HasErrorMarker(st[t])
               /\ st[t].agent_response \in ErrorContent

\* C27: once the strategy stage of a turn has failed, the state carries an error marker
\* in its metadata ('error' for the open-conversation strategy, 'rag_error' for the
\* grounded one) and the answer field holds the apology of that strategy in every later
\* state of the turn, Memory-Update (failed or not) included; a failure of Memory-Fetch
\* or of the routing call puts no marker in the metadata.
C27_StrategyFailureMarksState ==
    \A t \in Turns :
        /\ ("chatbot" \in failed[t] /\ pc[t] \in AfterStrategy)
              => /\ "error" \in DOMAIN st[t].metadata
                 /\ st[t].agent_response = ChatApology
        /\ ("rag_agent" \in failed[t] /\ pc[t] \in AfterStrategy)
              => /\ "rag_error" \in DOMAIN st[t].metadata
                 /\ st[t].agent_response = RagApology
        /\ (failed[t] \subseteq {"memory_fetch", "supervisor"} /\ pc[t] # "blocked")
              => DOMAIN st[t].metadata \cap ErrorMarkers = {}

\* a turn whose strategy failed, whose memory update failed afterwards, and which is over
C27_Witness ==
    \E t \in Turns :
        /\ pc[t] = "done"
        /\ failed[t] \cap {"chatbot", "rag_agent"} # {}
        /\ "memory_update" \in failed[t]
        /\ st[t].agent_response \in {ChatApology, RagApology}

\* ---------------------------------------------------------------------- C28
Rejected(t) == "validation" \in failed[t]
Errored(t) == "workflow" \in failed[t]

\* C28: a turn that ends as success, as rejected or as error returns a result with one
\* and the same set of fields: the answer (response), the strategy used (agent_used),
\* the metadata, the tool list (tools_used), the tool records (wikipedia_results) and
\* the memory summary (memory_context_summary).
C28_SameShape ==
    /\ DOMAIN TurnResult(InitialState) = DOMAIN ErrorResult("workflow_error")
    /\ \A t \in Turns :
          pc[t] = "done" =>
              /\ DOMAIN result[t] \ {"outcome"} =
                     {"response", "agent_used", "metadata", "tools_used",
                      "wikipedia_results", "memory_context_summary"}
              /\ Errored(t) => result[t] = ErrorResult("workflow_error")
              /\ (Rejected(t) /\ ~Errored(t)) => result[t].response = RejectionAnswer
              /\ (~Rejected(t) /\ ~Errored(t)) => result[t].agent_used = <<"chatbot">>

\* a turn rejected by the input guardrail returned its result
C28_Witness ==
    \E t \in Turns :
        /\ pc[t] = "done"
        /\ Rejected(t) /\ ~Errored(t)
        /\ result[t].outcome = "returned"
        /\ "memory_context_summary" \in DOMAIN result[t]

\* ---------------------------------------------------------------------- C29
\* the set of the elements of a sequence
Range(seq) == {seq[i] : i \in 1..Len(seq)}
NoDuplicates(seq) == \A i, j \in 1..Len(seq) : i # j => seq[i] # seq[j]
Grounded(t) ==
    /\ pc[t] = "done"
    /\ result[t].agent_used = <<"rag_agent">>
    /\ "rag_error" \notin DOMAIN result[t].metadata

\* C29: after a successful grounded turn the metadata holds the number of passages
\* retrieved and the list of their source identifiers without duplicates: k passages of
\* one source give a list of one element and a count of k.
C29_DistinctSources ==
    \A t \in Turns :
        Grounded(t) =>
            /\ result[t].metadata.hits_count[1] \in 0..TopN
            /\ NoDuplicates(result[t].metadata.sources)
            /\ Cardinality(Range(result[t].metadata.sources)) <= result[t].metadata.hits_count[1]

\* ---------------------------------------------------------------------- C30
\* the tool invocations the open-conversation strategy of the turn executed and returned
Invocations(t) == st[t].tool_results
ChatReturned(t) ==
    /\ pc[t] = "done"
    /\ result[t].agent_used = <<"chatbot">>
    /\ failed[t] \cap {"chatbot", "workflow"} = {}

\* C30: the result of a turn holds one tool record per tool invocation of the turn, in
\* the order of the invocations, its metadata.tools_used lists exactly the names of the
\* invoked tools, and both are empty when the model requested no tool call.
C30_ToolsReported ==
    \A t \in Turns :
        ChatReturned(t) =>
            /\ Len(result[t].wikipedia_results) = Len(Invocations(t))
            /\ \A i \in 1..Len(Invocations(t)) :
                  i <= Len(result[t].wikipedia_results)
                      => result[t].wikipedia_results[i] = Invocations(t)[i]
            /\ result[t].metadata.tools_used =
                  [i \in 1..Len(Invocations(t)) |-> Invocations(t)[i].tool]

\* ---------------------------------------------------------------------- C35
\* C35: when the updates of two turns of one user have both completed, every fact key
\* either of them extracted is in the stored fact map of the user, whatever the order
\* in which their reads and writes reached the database.
C35_NoFactLost ==
    (\A p \in Persisters : persists[p].pc = "ok")
        => \A p \in Persisters : DOMAIN persists[p].new \subseteq DOMAIN facts_col

\* ---------------------------------------------------------------------- C33
StageSteps == <<"memory", "supervisor", "agent", "update">>
FailuresOfStep(step) ==
    CASE step = "memory" -> {"memory_fetch"}
      [] step = "supervisor" -> {"supervisor"}
      [] step = "agent" -> {"chatbot", "rag_agent"}
      [] step = "update" -> {"memory_update"}
      [] OTHER -> {}
\* the failures that reach the outer except clause of their node
ReportedFailures == {"supervisor", "chatbot", "memory_update"}
StageEvents(t) == SelectSeq(emitted[t], LAMBDA e : e.step \notin {"streaming", "error"})
\* the k-th stage event of a turn is the 'active' event of a stage when k is odd and
\* the terminal event of the same stage when k is even, in the order of the stages
PairedInOrder(t) ==
    LET ev == StageEvents(t)
    IN  /\ Len(ev) <= 2 * Len(StageSteps)
        /\ \A k \in 1..Len(ev) :
              /\ ev[k].step = StageSteps[(k + 1) \div 2]
              /\ ev[k].status = IF k % 2 = 1 THEN "active" ELSE ev[k].status
              /\ k % 2 = 0 => ev[k].status \in {"completed", "error"}
              /\ req[t].observer # None => ev[k].delivered
        /\ \A j \in 1..Len(emitted[t]) :
              emitted[t][j].step = "streaming" =>
                  LET before == SelectSeq(SubSeq(emitted[t], 1, j),
                                          LAMBDA e : e.step \notin {"streaming", "error"})
                  IN  Len(before) = 5
        /\ \A j \in 1..Len(emitted[t]) :
              emitted[t][j].step = "error" => (j = Len(emitted[t]) /\ Len(ev) % 2 = 0)

\* C33 as stated: the events of every stage are one 'active' and then one terminal
\* event, before the events of the next stage, and a stage in which a backend call
\* failed does not report 'completed'.
C33_FailedStageNeverCompleted ==
    \A t \in Turns :
        /\ PairedInOrder(t)
        /\ \A k \in 1..Len(StageEvents(t)) :
              (k % 2 = 0 /\ FailuresOfStep(StageEvents(t)[k].step) \cap failed[t] # {})
                  => StageEvents(t)[k].status # "completed"

\* C33: an observer registered for the whole turn receives, for every stage executed,
\* one 'active' event and then one terminal event, before any event of the next stage,
\* and streaming events only between the two events of the strategy. The terminal event
\* is 'error' exactly when the failure reached the except clause of the node (Memory-Fetch
\* as a whole, the routing call, the open-conversation strategy, Memory-Update); a memory
\* system replaced by the mock and a failed grounded search report 'completed'.
C33_ActiveThenTerminal ==
    \A t \in Turns :
        /\ PairedInOrder(t)
        /\ \A k \in 1..Len(StageEvents(t)) :
              LET e == StageEvents(t)[k]
              IN  k % 2 = 0 =>
                    /\ e.status = "error" => FailuresOfStep(e.step) \cap failed[t] # {}
                    /\ FailuresOfStep(e.step) \cap failed[t] \cap ReportedFailures # {}
                          => e.status = "error"
                    /\ (e.step = "agent" /\ "rag_agent" \in failed[t]) => e.status = "completed"
                    /\ (e.step = "memory" /\ e.status = "error")
                          => e.details[1] = "Memory fetch failed"

\* a turn with an observer ended after its grounded search failed: the observer was told
\* 'completed' for the strategy and 'error' for the memory update
C33_Witness ==
    \E t \in Turns :
        /\ pc[t] = "done"
        /\ req[t].observer = "returns"
        /\ "rag_agent" \in failed[t]
        /\ "memory_update" \in failed[t]
        /\ Len(StageEvents(t)) = 8
        /\ StageEvents(t)[6].status = "completed"
        /\ StageEvents(t)[8].status = "error"

\* ---------------------------------------------------------------------- C34
\* C34: the observer a turn registered stays registered for its session until that turn
\* itself ends, whatever other turn of the session ends meanwhile, so that every
\* progress event of the turn that is not a streaming event is delivered to it.
C34_ObserverOutlivesOtherTurn ==
    \A t \in Turns :
        (pc[t] \notin {"idle", "done", "cancelled"} /\ req[t].observer # None)
            => /\ Registered(req[t].session_id)
               /\ InList(t, callbacks[req[t].session_id])
               /\ \A i \in 1..Len(emitted[t]) :
                     emitted[t][i].step # "streaming" => emitted[t][i].delivered

\* ---------------------------------------------------------------------- C39
\* C39: when an observer of a session raises while an event is delivered, the observers
\* registered after it are still called with that event, notify_progress returns to the
\* turn, and the turn returns the result it returns when no observer raises: the result
\* built from its final state, equal to that of a turn with the same backend answers
\* whose observer does not raise.
C39_RaisingObserverIsIsolated ==
    /\ lastCall.turn # None =>
          /\ lastCall.delivered \in {<<>>, lastCall.registered}
          /\ ~IsStreaming(lastCall.step, lastCall.status)
                => lastCall.delivered = lastCall.registered
    /\ \A t \in Turns :
          /\ pc[t] # "blocked"
          /\ failed[t] = {}
          /\ pc[t] = "done" => result[t] = TurnResult(st[t])
          /\ \A u \in Turns :
                (pc[t] = "done" /\ pc[u] = "done" /\ req[t].observer = "raises"
                    /\ req[u].observer = "returns" /\ SameCalls(t, u))
                    => result[t] = result[u]

\* an event was delivered to an observer that raised and then to the observer registered
\* after it, and the turn of the raising observer returned its answer
C39_Witness ==
    \E t, u \in Turns :
        /\ req[t].observer = "raises" /\ req[u].observer = "returns"
        /\ lastCall.registered = <<t, u>>
        /\ lastCall.delivered = <<t, u>>
        /\ lastCall.turn = t
        /\ lastCall.step = "update" /\ lastCall.status = "completed"

\* ---------------------------------------------------------------------- C31
Pending == {pending_actions[i] : i \in 1..Len(pending_actions)}
Inserted == {calendar_events[i] : i \in 1..Len(calendar_events)}

\* a step of the calendar tool inserts only by a successful approval of a pending proposal
CalendarStepIsGuarded ==
    /\ (calendar_events' # calendar_events) =>
          (/\ lastOp'.op = "approve" /\ lastOp'.status = "success"
           /\ lastOp'.proposal \in Pending
           /\ lastOp'.proposal.id = lastOp'.id
           /\ calendar_events' = Append(calendar_events, lastOp'.proposal)
           /\ pending_actions' = RemoveFirst(pending_actions, lastOp'.proposal))
    /\ (lastOp'.op = "approve" /\ lastOp'.status # "success") =>
          (/\ pending_actions' = pending_actions
           /\ calendar_events' = calendar_events)
    /\ (lastOp'.op = "approve" /\ pending_actions' # pending_actions) =>
          (calendar_events' # calendar_events)
    /\ (lastOp'.op \in ProposalActions) => (calendar_events' = calendar_events)
    /\ (lastOp'.op = "reject") => (calendar_events' = calendar_events)

\* C31: the calendar gets an event only from approve_action, and only for a proposal
\* that is in the pending list when approve_action is called; creating a proposal inserts
\* nothing; a proposal reject_action removed is never inserted and never pending again;
\* the approved proposal leaves the list exactly when its event was inserted, and an
\* approval that fails leaves the list and the calendar as they were.
C31_InsertOnlyByApprovalOfPending ==
    /\ [](\A p \in Pending \cup Inserted : p.serial \notin rejected)
    /\ [](Pending \cap Inserted = {})
    /\ [][CalendarStepIsGuarded]_vars

\* one proposal was rejected, another one approved and inserted, and an approval of a
\* third one failed and left it pending
C31_Witness ==
    /\ rejected # {}
    /\ calendar_events # <<>>
    /\ pending_actions # <<>>
    /\ lastOp.op = "approve" /\ lastOp.status = "error"
    /\ lastOp.proposal \in Pending

\* ---------------------------------------------------------------------- C36
\* C36: no two proposals of the pending list have the same id, so that approve_action
\* and reject_action with an id act on the proposal that was returned with that id.
C36_PendingIdsUnique ==
    \A i, j \in 1..Len(pending_actions) :
        i # j => pending_actions[i].id # pending_actions[j].id

\* ---------------------------------------------------------------------- C37
\* C37: a turn whose message approves or rejects acts only on a proposal created in a
\* turn of the same user.
C37_ApprovalWithinUser ==
    (lastOp.via = "chat" /\ lastOp.proposal # NoProposal) => lastOp.proposal.owner = lastOp.user

\* ---- C40: the frequency of a query counts its cache hits ----

CacheGetStep == lastCache'.op = "get" /\ cache_ops' = cache_ops + 1
CacheSetStep == lastCache'.op = "set" /\ cache_ops' = cache_ops + 1

FrequencyAfter(query) ==
    LET freq == RedisGetFreq(freq_db', MakeFreqKey(query))
    IN  IF freq # NoValue THEN freq ELSE IntValue(0)

FrequencyStep ==
    /\ (CacheSetStep /\ lastCache'.ok /\ GetQueryFrequency(lastCache'.query) = IntValue(0))
          => (FrequencyAfter(lastCache'.query) = IntValue(1))
    /\ (CacheGetStep /\ lastCache'.hit)
          => (FrequencyAfter(lastCache'.query) =
                  IntValue(GetQueryFrequency(lastCache'.query).n + 1))
    /\ (CacheGetStep /\ ~lastCache'.hit)
          => \A query \in Queries : FrequencyAfter(query) = GetQueryFrequency(query)

\* C40: after set_response(q) succeeds get_query_frequency(q) is 1, every cache hit of
\* get_response(q) increases get_query_frequency(q) by exactly 1, and a cache miss
\* leaves every frequency unchanged.
C40_FrequencyCountsHits == [][FrequencyStep]_vars

\* ---- C32: what a lookup of the query cache returns ----

LookupAnswered == lastCache.op = "get" /\ lastCache.ok
Looked == <<lastCache.query, lastCache.context>>

\* the original wording: "a query that was never stored" is the text as it was typed
NeverStoredIsMiss == (LookupAnswered /\ Looked \notin stored_queries) => ~lastCache.hit

\* the original wording: what set_response(q, r, m) stored is what a lookup of q returns
StoredIsReturned ==
    (LookupAnswered /\ Looked \in DOMAIN kept_entries)
        => /\ lastCache.hit
           /\ lastCache.response = kept_entries[Looked].response

\* C32 as stated: a lookup of a query that was never stored is a miss, and after
\* set_response(q, r, m) succeeded a lookup of q returns r until the entry expires or is
\* invalidated or cleared.
C32_NeverStoredMissStoredReturned == NeverStoredIsMiss /\ StoredIsReturned

\* the text an entry is filed under: the query in lower case without surrounding
\* blanks, followed by "|" and the context when there is one
Folded(query) == IF query = " Q" THEN "q" ELSE query
FiledUnder(p) == IF p[2] = NoContext THEN Folded(p[1]) ELSE Folded(p[1]) \o "|" \o p[2]
SameEntry(p1, p2) == FiledUnder(p1) = FiledUnder(p2)

\* the stored queries that wrote the entry a lookup reads, and the last of them: the
\* writes of one entry overwrite each other
Writers(p) == {x \in DOMAIN kept_entries : SameEntry(x, p)}
LastWriter(p) ==
    CHOOSE x \in Writers(p) : \A y \in Writers(p) : kept_entries[y].at <= kept_entries[x].at

LookupStep ==
    /\ (CacheGetStep /\ lastCache'.ok)
          => LET p == <<lastCache'.query, lastCache'.context>>
             IN  IF Writers(p) = {}
                 THEN /\ ~lastCache'.hit
                      /\ lastCache'.response = None
                 ELSE /\ lastCache'.hit
                      /\ lastCache'.response = kept_entries[LastWriter(p)].response
                      /\ "cached" \in DOMAIN lastCache'.metadata
                      /\ lastCache'.metadata.cached = <<"True">>
                      /\ \A k \in DOMAIN kept_entries[LastWriter(p)].metadata :
                            lastCache'.metadata[k] = kept_entries[LastWriter(p)].metadata[k]
    /\ (CacheSetStep /\ lastCache'.ok)
          => LET p == <<lastCache'.query, lastCache'.context>>
             IN  /\ p \in DOMAIN kept_entries'
                 /\ \A y \in DOMAIN kept_entries' :
                        SameEntry(y, p) => kept_entries'[y].at <= kept_entries'[p].at
                 /\ kept_entries'[p].response = lastCache'.response
    /\ (CacheGetStep /\ ~lastCache'.ok) => ~lastCache'.hit
    /\ (\E x \in DOMAIN kept_entries : x \notin DOMAIN kept_entries')
          => lastCache'.op \in {"expire", "invalidate", "clear"}

\* C32: a lookup the backend answers is a miss when no query with the same text up to
\* case and surrounding blanks, and the same context, has an entry, and otherwise
\* returns the response last stored for that text and context, with the stored metadata
\* marked as cached; an entry goes only by expiry, invalidate_query or clear_all.
C32_LookupReturnsLastStoredOfKey == [][LookupStep]_vars

C32_Witness ==
    /\ LookupAnswered
    /\ lastCache.hit
    /\ Looked \notin stored_queries
    /\ lastCache.response = "r2"

\* ---- C38: two connections under one key ----

\* C38: the cleanup of one connection never removes the registration of another: an
\* event of a turn goes to the connection that registered last under the key of the
\* turn, as long as that connection is open.
C38_CleanupKeepsOtherRegistration ==
    /\ \A k \in DOMAIN last_registered :
          sockets[last_registered[k]].pc = "open"
              => (k \in DOMAIN active_websockets
                  /\ active_websockets[k] = last_registered[k])
    /\ lastEvent.owed # NoConn => lastEvent.to = lastEvent.owed

====
